---------------------------- MODULE Spec2Model ----------------------------
(***************************************************************************)
(* Model of the polyline blob decoder of                                   *)
(* hypermill_nctools_inventory_exporter/geometry_polyline.py:              *)
(* parse_polyline (the blob decoder with its per-record numeric views),     *)
(* guess_polyline_format (the layout guesser), summarize_record_types,     *)
(* hexdump and read_geometry_polyline_blob, and of the point projector     *)
(* _extract_points_f64_be of scripts/inspect_polyline.py.                  *)
(*                                                                         *)
(* Bytes are integers 0..255 and a bytes object is a sequence of them.     *)
(* A call either returns a value or raises: an outcome is a record         *)
(* [raised, msg, value], where raised = "none" means the call returned.    *)
(* A float unpacked by struct is represented by its IEEE-754 bit pattern,  *)
(* written as the sequence of its bytes, most significant byte first.      *)
(***************************************************************************)
EXTENDS Integers, Sequences, FiniteSets, TLC

VARIABLES
    pc,                     \* "ready" before the call, then the operation that ran
    blob,                   \* the bytes handed to parse_polyline / guess_polyline_format
    fmt,                    \* the PolylineFormat handed to parse_polyline
    candidate_headers,      \* guess_polyline_format's candidate_headers, in order
    candidate_record_lens,  \* guess_polyline_format's candidate_record_lens, in order
    result,                 \* the outcome of the call
    final_best,             \* guess_polyline_format's best (score, fmt) when the loops end
    records,                \* the record list handed to summarize_record_types / _extract_points_f64_be
    only_type,              \* _extract_points_f64_be's only_type (None or Some(int))
    stop_at_zero,           \* _extract_points_f64_be's stop_at_zero
    max_points,             \* _extract_points_f64_be's max_points (None or Some(int))
    data,                   \* hexdump's data
    width,                  \* hexdump's width
    max_bytes,              \* hexdump's max_bytes
    db,                     \* the Geometries table: the polyline cell of each row id
    geometry_id,            \* read_geometry_polyline_blob's geometry_id
    poly_format,            \* the export loop's fixed format (poly_header, poly_record_len), or None
    threads,                \* the concurrent calls: each one's arguments, position and locals
    heap,                   \* the list objects the concurrent calls have created
    sheet_name,             \* the name handed to _sanitize_sheet_name / _dedupe_sheet_name
    used,                   \* _dedupe_sheet_name's used: the set of names given out
    returned,               \* the names the _dedupe_sheet_name calls returned, in order
    calls,                  \* the _dedupe_sheet_name calls made since Init
    busy,                   \* the GUI's busy["flag"]
    queue,                  \* the GUI's queue q, oldest message first
    workers,                \* the export worker threads started: each one's position
    presses,                \* the export button presses so far
    caller,                 \* the command or export function that runs the pipeline
    arg_header,             \* its header / poly_header argument (None or Some(int))
    arg_record_len,         \* its record_len / poly_record_len argument (None or Some(int))
    gids,                   \* the geometry ids it still has to handle, the current one first
    frame,                  \* its locals for the current geometry: blob, fmt, recs
    trace,                  \* the library operations it has invoked so far, in order
    exit_code               \* the int it returned (None while it runs or when it returns none)

decodeArgs == <<blob, fmt>>

guessArgs == <<candidate_headers, candidate_record_lens>>

recordArgs == <<records, only_type, stop_at_zero, max_points>>

hexdumpArgs == <<data, width, max_bytes>>

sourceArgs == <<db, geometry_id, poly_format>>

sheetState == <<sheet_name, used, returned, calls>>

guiState == <<busy, queue, workers, presses>>

callerState == <<caller, arg_header, arg_record_len, gids, frame, trace, exit_code>>

vars == <<pc, decodeArgs, guessArgs, result, final_best, recordArgs, hexdumpArgs,
          sourceArgs, threads, heap, sheetState, guiState, callerState>>

-----------------------------------------------------------------------------
(* Bounds of the inputs.                                                   *)

\* Every blob over ByteVals up to this length is an input.
MaxBlobLen == 6
\* Longer blobs, up to this length, are inputs with patterned contents.
MaxLongLen == 20
\* Formats have header_len in -1..MaxHeaderLen and record_len in -1..MaxRecordLen.
MaxHeaderLen == 3
MaxRecordLen == 20

ByteVals == {0, 255}

\* (first byte, step) of the patterned blobs: byte k is (first + k*step) % 256.
Patterns == {<<0, 0>>, <<250, 3>>, <<1, 51>>}

PatternBlob(n, p) == [k \in 1..n |-> (p[1] + (k - 1) * p[2]) % 256]

SmallBlobs == UNION {[1..n -> ByteVals] : n \in 0..MaxBlobLen}

LongBlobs == {PatternBlob(n, p) : n \in (MaxBlobLen + 1)..MaxLongLen, p \in Patterns}

Blobs == SmallBlobs \cup LongBlobs

Formats == [header_len : -1..MaxHeaderLen, record_len : -1..MaxRecordLen]

-----------------------------------------------------------------------------
(* Python values and helpers.                                              *)

Min(a, b) == IF a < b THEN a ELSE b

Max(a, b) == IF a > b THEN a ELSE b

\* A slice bound k of a sequence of length n, as Python clamps it.
PyIndex(n, k) == IF k < 0 THEN Max(n + k, 0) ELSE Min(k, n)

\* s[a:b]
PySlice(s, a, b) ==
    LET lo == PyIndex(Len(s), a)
        hi == PyIndex(Len(s), b)
    IN  IF hi <= lo THEN <<>> ELSE SubSeq(s, lo + 1, hi)

\* s[a:]
PySliceFrom(s, a) == PySlice(s, a, Len(s))

Reverse(s) == [k \in 1..Len(s) |-> s[Len(s) + 1 - k]]

\* The concatenation of a sequence of sequences.
RECURSIVE Flatten(_)
Flatten(ss) == IF ss = <<>> THEN <<>> ELSE Head(ss) \o Flatten(Tail(ss))

Return(v) == [raised |-> "none", msg |-> "", value |-> <<v>>]

Raise(exc, m) == [raised |-> exc, msg |-> m, value |-> <<>>]

NoResult == [raised |-> "none", msg |-> "", value |-> <<>>]

PolylineFormat(h, r) == [header_len |-> h, record_len |-> r]

\* The two bytes of a type tag in a blob: little-endian.
PackU16LeBytes(t) == <<t % 256, t \div 256>>

\* An optional value: None, or Some(x).
None == <<>>

Some(x) == <<x>>

\* The arguments of the operations that a specification does not call.
NoDecodeArgs == blob = <<>> /\ fmt = PolylineFormat(0, 0)

NoGuessArgs == candidate_headers = <<>> /\ candidate_record_lens = <<>>

NoRecordArgs ==
    records = <<>> /\ only_type = None /\ stop_at_zero = FALSE /\ max_points = None

NoHexdumpArgs == data = <<>> /\ width = 16 /\ max_bytes = 512

NoSourceArgs == db = <<>> /\ geometry_id = 0 /\ poly_format = None

NoThreads == threads = <<>> /\ heap = <<>>

NoSheetState == sheet_name = <<>> /\ used = {} /\ returned = <<>> /\ calls = 0

NoGuiState == busy = FALSE /\ queue = <<>> /\ workers = <<>> /\ presses = 0

EmptyFrame == [n |-> 0, blob |-> <<>>, fmt |-> <<>>, recs |-> <<>>]

NoCallerState ==
    /\ caller = "" /\ arg_header = <<>> /\ arg_record_len = <<>>
    /\ gids = <<>> /\ frame = EmptyFrame /\ trace = <<>> /\ exit_code = <<>>

-----------------------------------------------------------------------------
(* struct.unpack_from                                                      *)

\* struct.unpack_from("<H", b, 0)[0]; struct.error when b holds fewer than 2 bytes.
\* StructError stands for the raised struct.error.
StructError == -1

\* Mutant of _u16_le: the two bytes read big-endian (">H").
U16BigEndian(b) == IF Len(b) < 2 THEN StructError ELSE 256 * b[1] + b[2]

_u16_le(b) == IF Len(b) < 2 THEN StructError ELSE b[1] + 256 * b[2]

\* One "d" of struct.unpack_from: the double whose 8 bytes are w, in the order
\* that endian ("<" or ">") names.
UnpackD(w, endian) == IF endian = "<" THEN Reverse(w) ELSE w

\* One "f" of struct.unpack_from("<f..."): the float whose 4 bytes are w.
UnpackF32Le(w) == Reverse(w)

\* One "i" of struct.unpack_from("<i..."): two's complement, little-endian.
UnpackI32Le(w) ==
    w[1] + 256 * w[2] + 65536 * w[3]
      + 16777216 * (IF w[4] >= 128 THEN w[4] - 256 ELSE w[4])

_try_unpack_f64(payload, endian) ==
    LET n == (Len(payload) \div 8) * 8
    IN  IF n <= 0 THEN <<>>
        ELSE LET cnt == n \div 8
             IN  [k \in 1..cnt |-> UnpackD(PySlice(payload, 8 * (k - 1), 8 * k), endian)]

_try_unpack_f32_le(payload) ==
    LET n == (Len(payload) \div 4) * 4
    IN  IF n <= 0 THEN <<>>
        ELSE LET cnt == n \div 4
             IN  [k \in 1..cnt |-> UnpackF32Le(PySlice(payload, 4 * (k - 1), 4 * k))]

\* Mutant of _try_unpack_i32_le: the element count taken over from the 8-byte views.
UnpackI32CountOfF64(payload) ==
    LET n == (Len(payload) \div 8) * 8
    IN  IF n <= 0 THEN <<>>
        ELSE LET cnt == n \div 8
             IN  [k \in 1..cnt |-> UnpackI32Le(PySlice(payload, 4 * (k - 1), 4 * k))]

_try_unpack_i32_le(payload) ==
    LET n == (Len(payload) \div 4) * 4
    IN  IF n <= 0 THEN <<>>
        ELSE LET cnt == n \div 4
             IN  [k \in 1..cnt |-> UnpackI32Le(PySlice(payload, 4 * (k - 1), 4 * k))]

-----------------------------------------------------------------------------
(* parse_polyline                                                          *)

\* if fmt.header_len < 0 or fmt.record_len <= 0
InvalidFormat(f) == f.header_len < 0 \/ f.record_len <= 0

\* Mutant of BlobShorterThanHeader: the length check left out.
HeaderLengthUnchecked(b, f) == FALSE

\* if len(blob) < fmt.header_len
BlobShorterThanHeader(b, f) == Len(b) < f.header_len

\* Mutant of BodyNotDivisible: the divisibility check left out.
DivisibilityUnchecked(body, f) == FALSE

\* if (len(body) % fmt.record_len) != 0
BodyNotDivisible(body, f) == (Len(body) % f.record_len) # 0

\* Mutant of RecordOffset: the header length forgotten.
RecordOffsetWithoutHeader(f, i) == i * f.record_len

\* off = fmt.header_len + i * fmt.record_len
RecordOffset(f, i) == f.header_len + i * f.record_len

\* Mutant of RecordChunk: the window one byte short.
RecordChunkOneShort(b, f, off) == PySlice(b, off, off + f.record_len - 1)

\* chunk = blob[off : off + fmt.record_len]
RecordChunk(b, f, off) == PySlice(b, off, off + f.record_len)

\* payload = chunk[2:]
RecordPayload(chunk) == PySliceFrom(chunk, 2)

\* The body of the loop: record i (0-based) of the blob.
PolylineRecord(b, f, i) ==
    LET off     == RecordOffset(f, i)
        chunk   == RecordChunk(b, f, off)
        payload == RecordPayload(chunk)
    IN  [index        |-> i,
         offset       |-> off,
         rec_type_u16 |-> _u16_le(PySlice(chunk, 0, 2)),
         payload      |-> payload,
         f64_le       |-> _try_unpack_f64(payload, "<"),
         f64_be       |-> _try_unpack_f64(payload, ">"),
         f32_le       |-> _try_unpack_f32_le(payload),
         i32_le       |-> _try_unpack_i32_le(payload)]

\* header = blob[: fmt.header_len]
HeaderBytes(b, f) == PySlice(b, 0, f.header_len)

parse_polyline(b, f) ==
    IF InvalidFormat(f) THEN Raise("ValueError", "invalid format")
    ELSE IF BlobShorterThanHeader(b, f)
    THEN Raise("ValueError", "blob shorter than header")
    ELSE LET body == PySliceFrom(b, f.header_len)
         IN  IF BodyNotDivisible(body, f)
             THEN Raise("ValueError", "body not divisible by record_len")
             ELSE LET nrec == Len(body) \div f.record_len
                      recs == [k \in 1..nrec |-> PolylineRecord(b, f, k - 1)]
                  IN  IF \E k \in 1..nrec : recs[k].rec_type_u16 = StructError
                      THEN Raise("struct.error", "unpack_from requires a buffer of at least 2 bytes")
                      ELSE Return([header |-> HeaderBytes(b, f), recs |-> recs])

-----------------------------------------------------------------------------
(* The decoder called once on an input.                                    *)

InitDecode ==
    /\ pc = "ready"
    /\ blob \in Blobs
    /\ fmt \in Formats
    /\ result = NoResult
    /\ final_best = None
    /\ NoGuessArgs /\ NoRecordArgs /\ NoHexdumpArgs /\ NoSourceArgs /\ NoThreads
    /\ NoSheetState /\ NoGuiState
    /\ NoCallerState

ParsePolyline ==
    /\ pc = "ready"
    /\ pc' = "parse_polyline"
    /\ result' = parse_polyline(blob, fmt)
    /\ UNCHANGED <<decodeArgs, guessArgs, final_best, recordArgs, hexdumpArgs, sourceArgs,
                   threads, heap, sheetState, guiState, callerState>>

NextDecode == ParsePolyline

SpecDecode == InitDecode /\ [][NextDecode]_vars

-----------------------------------------------------------------------------
(* iter_records (scripts/plot_mirror_fill_min.py)                          *)

\* PolyRec(idx=idx, rec_type=rec_type, payload=payload)
PolyRec(idx, rec_type, payload) == [idx |-> idx, rec_type |-> rec_type, payload |-> payload]

\* The generator run to its end: the records it yields, and the struct.error
\* that ends it where rec[0:2] is shorter than 2 bytes. value holds what was
\* yielded up to there.
RECURSIVE IterLoop(_, _, _, _, _)
IterLoop(yielded, b, off, idx, record_len) ==
    IF ~(off + record_len <= Len(b)) THEN Return(yielded)
    ELSE LET rec      == PySlice(b, off, off + record_len)
             rec_type == _u16_le(PySlice(rec, 0, 2))
         IN  IF rec_type = StructError
             THEN [raised |-> "struct.error",
                   msg    |-> "unpack requires a buffer of 2 bytes",
                   value  |-> <<yielded>>]
             ELSE IterLoop(Append(yielded, PolyRec(idx, rec_type, PySliceFrom(rec, 2))),
                           b, off + record_len, idx + 1, record_len)

iter_records(b, header_len, record_len) == IterLoop(<<>>, b, header_len, 0, record_len)

\* list(iter_records(blob, header_len, record_len)) on the decoder's inputs.
IterRecords ==
    /\ pc = "ready"
    /\ pc' = "iter_records"
    /\ result' = iter_records(blob, fmt.header_len, fmt.record_len)
    /\ UNCHANGED <<decodeArgs, guessArgs, final_best, recordArgs, hexdumpArgs, sourceArgs,
                   threads, heap, sheetState, guiState, callerState>>

NextIterRecords == IterRecords

SpecIterRecords == InitDecode /\ [][NextIterRecords]_vars

-----------------------------------------------------------------------------
(* guess_polyline_format                                                   *)

\* The default candidate_headers and candidate_record_lens.
DefaultHeaders == <<0, 16, 32, 48, 64, 74, 80, 96>>

DefaultRecordLens == <<16, 18, 20, 24, 26, 28, 32>>

\* t <= 1024
SmallTagLimit == 1024

\* types[: min(10, len(types))]
HeadLen == 10

\* if h < 0 or h >= len(blob)
HeaderSkipped(b, h) == h < 0 \/ h >= Len(b)

\* Mutant of RecordLenSkipped: a record of the type tag alone let through.
RecordLenSkippedBelowTwo(rlen) == rlen < 2

\* if rlen <= 2
RecordLenSkipped(rlen) == rlen <= 2

\* if body_len <= 0 or (body_len % rlen) != 0
BodySkipped(body_len, rlen) == body_len <= 0 \/ (body_len % rlen) # 0

\* types = [rec.rec_type_u16 for rec in recs]
TypesOf(recs) == [k \in 1..Len(recs) |-> recs[k].rec_type_u16]

\* head.count(x)
Count(seq, x) == Cardinality({k \in 1..Len(seq) : seq[k] = x})

SetMax(S) == CHOOSE m \in S : \A x \in S : x <= m

\* Mutant of Score: head_bias taken over all the records instead of the first 10.
ScoreHeadUncapped(recs) ==
    LET types == TypesOf(recs)
        n     == Len(types)
        small == Cardinality({k \in 1..n : types[k] <= SmallTagLimit})
        uniq  == Cardinality({types[k] : k \in 1..n})
        most  == SetMax({Count(types, x) : x \in {types[k] : k \in 1..n}})
    IN  [num |-> 5 * n * small + 3 * n * (n - uniq) + n * most,
         den |-> 5 * n * n]

\* The score of a non-empty record list,
\*   small_ratio * 1.0 + (1.0 - uniq_ratio) * 0.6 + head_bias * 0.2,
\* kept as the exact fraction num/den with den = 5 * len(types) * len(head).
\* The rounding of the float operations is not modelled: two candidates whose
\* fractions are equal can differ in the last bit as floats. On the inputs drawn
\* below that offer more than one candidate, the floats compare exactly as
\* these fractions do.
Score(recs) ==
    LET types == TypesOf(recs)
        n     == Len(types)
        small == Cardinality({k \in 1..n : types[k] <= SmallTagLimit})
        uniq  == Cardinality({types[k] : k \in 1..n})
        head  == PySlice(types, 0, Min(HeadLen, n))
        most  == SetMax({Count(head, x) : x \in {head[k] : k \in 1..Len(head)}})
    IN  [num |-> 5 * Len(head) * small + 3 * Len(head) * (n - uniq) + n * most,
         den |-> 5 * n * Len(head)]

ScoreGreater(a, b) == a.num * b.den > b.num * a.den

ScoreEqual(a, b) == a.num * b.den = b.num * a.den

\* Mutant of IsBetter: the running best also replaced on an equal score.
IsBetterOrEqual(best, score) ==
    best = None \/ ScoreGreater(score, best[1].score) \/ ScoreEqual(score, best[1].score)

\* if best is None or score > best[0]
IsBetter(best, score) == best = None \/ ScoreGreater(score, best[1].score)

\* Mutant of CandidateFormat: the two lengths in the wrong order.
CandidateFormatSwapped(h, rlen) == PolylineFormat(rlen, h)

\* fmt = PolylineFormat(h, rlen)
CandidateFormat(h, rlen) == PolylineFormat(h, rlen)

\* The body of the inner loop: the running best after the pair (h, rlen).
GuessCandidate(best, b, h, rlen) ==
    IF RecordLenSkipped(rlen) THEN best
    ELSE IF BodySkipped(Len(b) - h, rlen) THEN best
    ELSE LET parsed == parse_polyline(b, PolylineFormat(h, rlen))
         IN  IF parsed.raised # "none" THEN best
             ELSE LET recs == parsed.value[1].recs
                  IN  IF recs = <<>> THEN best
                      ELSE LET score == Score(recs)
                           IN  IF IsBetter(best, score)
                               THEN Some([score |-> score, fmt |-> CandidateFormat(h, rlen)])
                               ELSE best

\* for rlen in candidate_record_lens
RECURSIVE GuessRecordLens(_, _, _, _)
GuessRecordLens(best, b, h, rlens) ==
    IF rlens = <<>> THEN best
    ELSE GuessRecordLens(GuessCandidate(best, b, h, Head(rlens)), b, h, Tail(rlens))

\* for h in candidate_headers
RECURSIVE GuessHeaders(_, _, _, _)
GuessHeaders(best, b, hs, rlens) ==
    IF hs = <<>> THEN best
    ELSE GuessHeaders(
             IF HeaderSkipped(b, Head(hs)) THEN best
             ELSE GuessRecordLens(best, b, Head(hs), rlens),
             b, Tail(hs), rlens)

guess_polyline_format(b, hs, rlens) ==
    LET best == GuessHeaders(None, b, hs, rlens)
    IN  Return(IF best # None THEN Some(best[1].fmt) ELSE None)

-----------------------------------------------------------------------------
(* The guesser called once on an input.                                    *)

HeaderValues == {-1, 0, 3}

RecordLenValues == {2, 3, 6}

\* The sequences without repetition over S, of every length.
Orderings(S) ==
    UNION {{q \in [1..n -> S] : \A j, k \in 1..n : j # k => q[j] # q[k]} :
             n \in 0..Cardinality(S)}

\* Blobs of 3-byte records (type tag, one payload byte) whose tags are j times
\* the first tag of a pair and then the second, up to MaxTagRecords records;
\* they are guessed with a single candidate pair.
MaxTagRecords == 12

TagPairs == {<<0, 1025>>, <<1024, 1025>>, <<1024, 0>>, <<2000, 1025>>}

TagRecordBytes(t) == PackU16LeBytes(t) \o <<0>>

RECURSIVE TagBlob(_, _, _)
TagBlob(n, j, p) ==
    IF n = 0 THEN <<>>
    ELSE TagBlob(n - 1, j, p) \o TagRecordBytes(IF n <= j THEN p[1] ELSE p[2])

TagBlobs == {TagBlob(n, j, p) : n \in 1..MaxTagRecords, j \in 0..MaxTagRecords, p \in TagPairs}

InitGuess ==
    /\ pc = "ready"
    /\ \/ /\ blob \in Blobs
          /\ candidate_headers \in Orderings(HeaderValues) \cup {DefaultHeaders}
          /\ candidate_record_lens \in Orderings(RecordLenValues) \cup {DefaultRecordLens}
       \/ /\ blob \in TagBlobs
          /\ candidate_headers \in {<<0>>, <<3>>}
          /\ candidate_record_lens \in {<<3>>, <<6>>}
    /\ fmt = PolylineFormat(0, 0)
    /\ result = NoResult
    /\ final_best = None
    /\ NoRecordArgs /\ NoHexdumpArgs /\ NoSourceArgs /\ NoThreads
    /\ NoSheetState /\ NoGuiState
    /\ NoCallerState

GuessPolylineFormat ==
    /\ pc = "ready"
    /\ pc' = "guess_polyline_format"
    /\ result' = guess_polyline_format(blob, candidate_headers, candidate_record_lens)
    /\ final_best' = GuessHeaders(None, blob, candidate_headers, candidate_record_lens)
    /\ UNCHANGED <<decodeArgs, guessArgs, recordArgs, hexdumpArgs, sourceArgs,
                   threads, heap, sheetState, guiState, callerState>>

NextGuess == GuessPolylineFormat

SpecGuess == InitGuess /\ [][NextGuess]_vars

-----------------------------------------------------------------------------
(* summarize_record_types                                                  *)

\* A dict is the sequence of its items <<key, value>>, in insertion order.
DictKeys(d) == {d[k][1] : k \in 1..Len(d)}

\* counts.get(key, default)
DictGet(d, key, default) ==
    IF key \in DictKeys(d)
    THEN d[CHOOSE k \in 1..Len(d) : d[k][1] = key][2]
    ELSE default

\* counts[key] = value: a present key keeps its place, a new key goes last.
DictSet(d, key, value) ==
    IF key \in DictKeys(d)
    THEN [k \in 1..Len(d) |-> IF d[k][1] = key THEN <<key, value>> ELSE d[k]]
    ELSE Append(d, <<key, value>>)

\* for r in records: counts[r.rec_type_u16] = counts.get(r.rec_type_u16, 0) + 1
RECURSIVE CountTypes(_, _)
CountTypes(counts, recs) ==
    IF recs = <<>> THEN counts
    ELSE CountTypes(
             DictSet(counts, Head(recs).rec_type_u16,
                     DictGet(counts, Head(recs).rec_type_u16, 0) + 1),
             Tail(recs))

\* Mutant of SortKeyLess: the count ascending (the minus sign forgotten).
SortKeyLessAscendingCount(a, b) == a[2] < b[2] \/ (a[2] = b[2] /\ a[1] < b[1])

\* key=lambda kv: (-kv[1], kv[0]): the key of item a is less than that of item b.
SortKeyLess(a, b) == (0 - a[2]) < (0 - b[2]) \/ (a[2] = b[2] /\ a[1] < b[1])

\* One item put into a sorted list, after the items whose key is not greater.
RECURSIVE InsertSorted(_, _)
InsertSorted(sorted, x) ==
    IF sorted = <<>> THEN <<x>>
    ELSE IF SortKeyLess(x, Head(sorted)) THEN <<x>> \o sorted
    ELSE <<Head(sorted)>> \o InsertSorted(Tail(sorted), x)

\* sorted(items, key=...): stable.
RECURSIVE Sorted(_)
Sorted(items) ==
    IF items = <<>> THEN <<>>
    ELSE InsertSorted(Sorted(SubSeq(items, 1, Len(items) - 1)), items[Len(items)])

\* dict(pairs)
RECURSIVE DictOf(_)
DictOf(pairs) ==
    IF pairs = <<>> THEN <<>>
    ELSE DictSet(DictOf(SubSeq(pairs, 1, Len(pairs) - 1)),
                 pairs[Len(pairs)][1], pairs[Len(pairs)][2])

summarize_record_types(recs) == DictOf(Sorted(CountTypes(<<>>, recs)))

-----------------------------------------------------------------------------
(* The summarizer called once on a decoded record list.                    *)

\* The record lists are those parse_polyline decodes from blobs of 3-byte
\* records with the type tags of every sequence over TagValues up to this length.
MaxSummaryLen == 5

TagValues == {3, 5, 7}

TagSeqs == UNION {[1..n -> TagValues] : n \in 0..MaxSummaryLen}

RecordsOfTags(tags) ==
    parse_polyline(Flatten([k \in 1..Len(tags) |-> TagRecordBytes(tags[k])]),
                   PolylineFormat(0, 3)).value[1].recs

InitSummarize ==
    /\ pc = "ready"
    /\ records \in {RecordsOfTags(tags) : tags \in TagSeqs}
    /\ only_type = None /\ stop_at_zero = FALSE /\ max_points = None
    /\ result = NoResult
    /\ final_best = None
    /\ NoDecodeArgs /\ NoGuessArgs /\ NoHexdumpArgs /\ NoSourceArgs /\ NoThreads
    /\ NoSheetState /\ NoGuiState
    /\ NoCallerState

SummarizeRecordTypes ==
    /\ pc = "ready"
    /\ pc' = "summarize_record_types"
    /\ result' = Return(summarize_record_types(records))
    /\ UNCHANGED <<decodeArgs, guessArgs, final_best, recordArgs, hexdumpArgs,
                   sourceArgs, threads, heap, sheetState, guiState, callerState>>

NextSummarize == SummarizeRecordTypes

SpecSummarize == InitSummarize /\ [][NextSummarize]_vars

-----------------------------------------------------------------------------
(* _extract_points_f64_be (scripts/inspect_polyline.py)                    *)

\* The doubles 0.0, -0.0, 1.0 and 2.0, as their bytes from the most significant.
PosZero == <<0, 0, 0, 0, 0, 0, 0, 0>>

NegZero == <<128, 0, 0, 0, 0, 0, 0, 0>>

One == <<63, 240, 0, 0, 0, 0, 0, 0>>

Two == <<64, 0, 0, 0, 0, 0, 0, 0>>

\* 3.0 and 4.0
Three == <<64, 8, 0, 0, 0, 0, 0, 0>>

Four == <<64, 16, 0, 0, 0, 0, 0, 0>>

\* Mutant of F64IsZero: the bit patterns compared, which tells -0.0 from 0.0.
F64IsPositiveZero(x) == x = PosZero

\* x == 0.0 for a double x: true of 0.0 and of -0.0.
F64IsZero(x) == x[1] \in {0, 128} /\ \A k \in 2..8 : x[k] = 0

\* Mutant of OnlyTypeSkipped: the type filter left out.
OnlyTypeIgnored(r, type) == FALSE

\* if only_type is not None and r.rec_type_u16 != only_type
OnlyTypeSkipped(r, type) == type # None /\ r.rec_type_u16 # type[1]

\* Mutant of TooFewDoubles: a third double demanded.
FewerThanThreeDoubles(r) == Len(r.f64_be) < 3

\* if len(r.f64_be) < 2
TooFewDoubles(r) == Len(r.f64_be) < 2

\* x = float(r.f64_be[0]); y = float(r.f64_be[1]);
\* z = float(r.f64_be[2]) if len(r.f64_be) >= 3 else 0.0
PointOf(r) ==
    <<r.f64_be[1], r.f64_be[2], IF Len(r.f64_be) >= 3 THEN r.f64_be[3] ELSE PosZero>>

\* Mutant of StopsAtZero: z left out of the test.
StopsAtZeroXY(stop, p) == stop /\ F64IsZero(p[1]) /\ F64IsZero(p[2])

\* if stop_at_zero and x == 0.0 and y == 0.0 and z == 0.0
StopsAtZero(stop, p) == stop /\ F64IsZero(p[1]) /\ F64IsZero(p[2]) /\ F64IsZero(p[3])

\* if max_points is not None and len(pts) >= max_points
LimitReached(limit, pts) == limit # None /\ Len(pts) >= limit[1]

\* The loop over the records, from the points gathered so far.
RECURSIVE ExtractLoop(_, _, _, _, _)
ExtractLoop(pts, recs, type, stop, limit) ==
    IF recs = <<>> THEN pts
    ELSE IF OnlyTypeSkipped(Head(recs), type)
    THEN ExtractLoop(pts, Tail(recs), type, stop, limit)
    ELSE IF TooFewDoubles(Head(recs))
    THEN ExtractLoop(pts, Tail(recs), type, stop, limit)
    ELSE IF StopsAtZero(stop, PointOf(Head(recs))) THEN pts
    ELSE LET appended == Append(pts, PointOf(Head(recs)))
         IN  IF LimitReached(limit, appended) THEN appended
             ELSE ExtractLoop(appended, Tail(recs), type, stop, limit)

_extract_points_f64_be(recs, type, stop, limit) ==
    ExtractLoop(<<>>, recs, type, stop, limit)

-----------------------------------------------------------------------------
(* _extract_points_f64_be_xyz (nctool_plot.py)                             *)

\* getattr(r, name, None), for the two attributes the loop reads: every
\* PolylineRecord has both.
GetAttr(r, name) ==
    IF name = "rec_type_u16" THEN Some(r.rec_type_u16) ELSE Some(r.f64_be)

\* Mutant of XyzTypeSkipped: the type filter left out.
XyzTypeIgnored(r, type) == FALSE

\* if only_type is not None and getattr(r, "rec_type_u16", None) != only_type
XyzTypeSkipped(r, type) == type # None /\ GetAttr(r, "rec_type_u16") # type

\* if not f64_be or len(f64_be) < 2
XyzUnusable(f64_be) == f64_be = None \/ f64_be[1] = <<>> \/ Len(f64_be[1]) < 2

\* x = float(f64_be[0]); y = float(f64_be[1]);
\* z = float(f64_be[2]) if len(f64_be) >= 3 else 0.0
XyzPoint(f64_be) ==
    <<f64_be[1], f64_be[2], IF Len(f64_be) >= 3 THEN f64_be[3] ELSE PosZero>>

RECURSIVE XyzLoop(_, _, _, _, _)
XyzLoop(pts, recs, type, stop, limit) ==
    IF recs = <<>> THEN pts
    ELSE IF XyzTypeSkipped(Head(recs), type)
    THEN XyzLoop(pts, Tail(recs), type, stop, limit)
    ELSE IF XyzUnusable(GetAttr(Head(recs), "f64_be"))
    THEN XyzLoop(pts, Tail(recs), type, stop, limit)
    ELSE LET p == XyzPoint(GetAttr(Head(recs), "f64_be")[1])
         IN  IF stop /\ F64IsZero(p[1]) /\ F64IsZero(p[2]) /\ F64IsZero(p[3]) THEN pts
             ELSE IF limit # None /\ Len(Append(pts, p)) >= limit[1] THEN Append(pts, p)
             ELSE XyzLoop(Append(pts, p), Tail(recs), type, stop, limit)

_extract_points_f64_be_xyz(recs, type, stop, limit) ==
    XyzLoop(<<>>, recs, type, stop, limit)

-----------------------------------------------------------------------------
(* The projector called once on a list of decoded records.                 *)

\* The record lists hold up to this many records.
MaxRecords == 3

\* The payload doubles (big-endian) and type tag of the records offered: each
\* record is what parse_polyline decodes from these bytes as a one-record blob.
RecordShapes ==
    { <<5, <<One, Two, PosZero>>>>,
      <<5, <<PosZero, PosZero, PosZero>>>>,
      <<5, <<PosZero, NegZero>>>>,
      <<5, <<PosZero>>>>,
      <<5, <<PosZero, PosZero, Two>>>>,
      <<7, <<PosZero, PosZero, PosZero>>>>,
      <<7, <<Two, One>>>>,
      <<5, <<Three, Four, PosZero>>>> }

RecordOfShape(shape) ==
    LET bytes == PackU16LeBytes(shape[1]) \o Flatten(shape[2])
    IN  parse_polyline(bytes, PolylineFormat(0, Len(bytes))).value[1].recs[1]

RecordLists ==
    UNION {[1..n -> {RecordOfShape(shape) : shape \in RecordShapes}] : n \in 0..MaxRecords}

InitExtract ==
    /\ pc = "ready"
    /\ records \in RecordLists
    /\ only_type \in {None, Some(5)}
    /\ stop_at_zero \in BOOLEAN
    /\ max_points \in {None, Some(-1), Some(0), Some(1), Some(2)}
    /\ result = NoResult
    /\ final_best = None
    /\ NoDecodeArgs /\ NoGuessArgs /\ NoHexdumpArgs /\ NoSourceArgs /\ NoThreads
    /\ NoSheetState /\ NoGuiState
    /\ NoCallerState

ExtractPoints ==
    /\ pc = "ready"
    /\ pc' = "_extract_points_f64_be"
    /\ result' = Return(_extract_points_f64_be(records, only_type, stop_at_zero, max_points))
    /\ UNCHANGED <<decodeArgs, guessArgs, final_best, recordArgs, hexdumpArgs,
                   sourceArgs, threads, heap, sheetState, guiState, callerState>>

ExtractPointsXyz ==
    /\ pc = "ready"
    /\ pc' = "_extract_points_f64_be_xyz"
    /\ result' = Return(_extract_points_f64_be_xyz(records, only_type, stop_at_zero, max_points))
    /\ UNCHANGED <<decodeArgs, guessArgs, final_best, recordArgs, hexdumpArgs,
                   sourceArgs, threads, heap, sheetState, guiState, callerState>>

NextExtract == ExtractPoints \/ ExtractPointsXyz

SpecExtract == InitExtract /\ [][NextExtract]_vars

-----------------------------------------------------------------------------
(* hexdump                                                                 *)

\* A text is the sequence of its characters' code points.
\* "0123456789abcdef"
HexDigits == <<48, 49, 50, 51, 52, 53, 54, 55, 56, 57, 97, 98, 99, 100, 101, 102>>

\* chr(x): the character whose code point is x.
Chr(x) == x

\* " ", "." and "\n"
Space == <<32>>

Dot == 46

Newline == <<10>>

\* 16 to the power k.
RECURSIVE Pow16(_)
Pow16(k) == IF k = 0 THEN 1 ELSE 16 * Pow16(k - 1)

\* f"{n:0{digits}x}", for 0 <= n < 16^digits
FormatHex(n, digits) ==
    [k \in 1..digits |-> HexDigits[((n \div Pow16(digits - k)) % 16) + 1]]

\* str(n), for n >= 0
RECURSIVE FormatDecimal(_)
FormatDecimal(n) ==
    IF n < 10 THEN <<HexDigits[n + 1]>>
    ELSE FormatDecimal(n \div 10) \o <<HexDigits[(n % 10) + 1]>>

\* sep.join(parts)
RECURSIVE Join(_, _)
Join(sep, parts) ==
    IF parts = <<>> THEN <<>>
    ELSE IF Len(parts) = 1 THEN parts[1]
    ELSE parts[1] \o sep \o Join(sep, Tail(parts))

\* f"{text:<{n}}": text padded with spaces on the right to n characters.
LeftJustify(text, n) == text \o [k \in 1..(n - Len(text)) |-> Space[1]]

\* list(range(0, n, step)), for n >= 0 and step # 0
Range(n, step) ==
    IF step < 0 THEN <<>> ELSE [k \in 1..((n + step - 1) \div step) |-> (k - 1) * step]

\* chr(x) if 32 <= x <= 126 else "."
AsciiOf(x) == IF 32 <= x /\ x <= 126 THEN Chr(x) ELSE Dot

\* One loop iteration: the line for the chunk b[i : i + width].
HexdumpLine(b, i, w) ==
    LET chunk  == PySlice(b, i, i + w)
        hexs   == Join(Space, [k \in 1..Len(chunk) |-> FormatHex(chunk[k], 2)])
        ascii_ == [k \in 1..Len(chunk) |-> AsciiOf(chunk[k])]
    IN  FormatHex(i, 8) \o Space \o Space \o LeftJustify(hexs, w * 3)
            \o Space \o Space \o ascii_

\* f"... ({len(data)} bytes total)"
TruncationNote(d) ==
    LET opening == <<46, 46, 46, 32, 40>>
        closing == <<32, 98, 121, 116, 101, 115, 32, 116, 111, 116, 97, 108, 41>>
    IN  opening \o FormatDecimal(Len(d)) \o closing

\* Mutant of NoteNeeded: the note also written when data is exactly max_bytes long.
NoteNeededAtLimit(d, limit) == Len(d) >= limit

\* if len(data) > max_bytes
NoteNeeded(d, limit) == Len(d) > limit

hexdump(d, w, limit) ==
    LET b == PySlice(d, 0, limit)
    IN  IF w = 0 THEN Raise("ValueError", "range() arg 3 must not be zero")
        ELSE LET starts == Range(Len(b), w)
                 lines  == [k \in 1..Len(starts) |-> HexdumpLine(b, starts[k], w)]
                 note   == IF NoteNeeded(d, limit) THEN <<TruncationNote(d)>> ELSE <<>>
             IN  Return(Join(Newline, lines \o note))

-----------------------------------------------------------------------------
(* hexdump called once.                                                    *)

\* data holds up to this many bytes.
MaxDataLen == 4

DataBytes == {0, 10, 65, 255}

InitHexdump ==
    /\ pc = "ready"
    /\ data \in UNION {[1..n -> DataBytes] : n \in 0..MaxDataLen}
    /\ width \in -1..3
    /\ max_bytes \in -1..5
    /\ result = NoResult
    /\ final_best = None
    /\ NoDecodeArgs /\ NoGuessArgs /\ NoRecordArgs /\ NoSourceArgs /\ NoThreads
    /\ NoSheetState /\ NoGuiState
    /\ NoCallerState

Hexdump ==
    /\ pc = "ready"
    /\ pc' = "hexdump"
    /\ result' = hexdump(data, width, max_bytes)
    /\ UNCHANGED <<decodeArgs, guessArgs, final_best, recordArgs, hexdumpArgs,
                   sourceArgs, threads, heap, sheetState, guiState, callerState>>

NextHexdump == Hexdump

SpecHexdump == InitHexdump /\ [][NextHexdump]_vars

-----------------------------------------------------------------------------
(* read_geometry_polyline_blob and its caller                              *)

\* The value sqlite3 hands back for a stored polyline, by its Python type:
\* None for NULL, bytes for a BLOB, int or str for an INTEGER or TEXT value.
Cell(type, bytes) == [type |-> type, bytes |-> bytes]

\* The messages of the two RuntimeErrors (lines 41 and 44), by what they say.
NotFoundMessage == "Geometries.polyline not found"

TypeMismatchMessage == "polyline has an unexpected type"

\* cur.fetchone() after SELECT polyline FROM Geometries WHERE id = ?:
\* the one-column row of that id, or None.
Fetchone(table, id) == IF id \in DOMAIN table THEN Some(<<table[id]>>) ELSE None

\* Mutant of RowMissing: a NULL polyline taken for a found one.
RowMissingWithoutNullTest(row) == row = None

\* not row or row[0] is None
RowMissing(row) == row = None \/ row[1][1].type = "NoneType"

\* isinstance(blob, (bytes, bytearray, memoryview))
IsByteSequence(cell) == cell.type \in {"bytes", "bytearray", "memoryview"}

read_geometry_polyline_blob(table, id) ==
    LET row == Fetchone(table, id)
    IN  IF RowMissing(row) THEN Raise("RuntimeError", NotFoundMessage)
        ELSE IF ~IsByteSequence(row[1][1]) THEN Raise("RuntimeError", TypeMismatchMessage)
        ELSE Return(row[1][1].bytes)

\* One iteration of export_nctool_pngs_for_folder_id's loop, up to the points
\* (lines 178-200): Return(None) where the loop continues with the next row,
\* Return(Some(points)) where it goes on to draw. The read is outside every
\* try, so its failure is the iteration's; only parse_polyline is guarded.
\* _extract_points_f64_be_xyz runs the loop of _extract_points_f64_be.
ExportIteration(table, id, fixed, type) ==
    LET read == read_geometry_polyline_blob(table, id)
    IN  IF read.raised # "none" THEN read
        ELSE LET b      == read.value[1]
                 chosen == IF fixed # None THEN fixed
                           ELSE guess_polyline_format(b, DefaultHeaders, DefaultRecordLens).value[1]
             IN  IF chosen = None THEN Return(None)
                 ELSE LET parsed == parse_polyline(b, chosen[1])
                      IN  IF parsed.raised # "none" THEN Return(None)
                          ELSE LET pts_xyz == _extract_points_f64_be(
                                                  parsed.value[1].recs, type, TRUE, None)
                               IN  IF pts_xyz = <<>> THEN Return(None)
                                   ELSE Return(Some(pts_xyz))

-----------------------------------------------------------------------------
(* The blob source and the export loop called once on a database.          *)

\* Geometries holds rows with ids in 1..MaxGeometryId.
MaxGeometryId == 2

\* Two 26-byte records (a point, then the all-zero end mark), no bytes, and
\* bytes no candidate format fits.
StoredBlobs ==
    { PackU16LeBytes(5) \o One \o Two \o PosZero
          \o PackU16LeBytes(5) \o PosZero \o PosZero \o PosZero,
      <<>>,
      <<1, 2, 3, 4, 5>> }

Cells ==
    {Cell("NoneType", <<>>), Cell("int", <<>>), Cell("str", <<>>)}
        \cup {Cell("bytes", b) : b \in StoredBlobs}

Tables == UNION {[ids -> Cells] : ids \in SUBSET (1..MaxGeometryId)}

InitSource ==
    /\ pc = "ready"
    /\ db \in Tables
    /\ geometry_id \in 1..(MaxGeometryId + 1)
    /\ poly_format \in {None, Some(PolylineFormat(0, 26)), Some(PolylineFormat(0, 7))}
    /\ only_type \in {None, Some(5)}
    /\ records = <<>> /\ stop_at_zero = TRUE /\ max_points = None
    /\ result = NoResult
    /\ final_best = None
    /\ NoDecodeArgs /\ NoGuessArgs /\ NoHexdumpArgs /\ NoThreads
    /\ NoSheetState /\ NoGuiState
    /\ NoCallerState

ReadGeometryPolylineBlob ==
    /\ pc = "ready"
    /\ pc' = "read_geometry_polyline_blob"
    /\ result' = read_geometry_polyline_blob(db, geometry_id)
    /\ UNCHANGED <<decodeArgs, guessArgs, final_best, recordArgs, hexdumpArgs,
                   sourceArgs, threads, heap, sheetState, guiState, callerState>>

ExportNctoolPngs ==
    /\ pc = "ready"
    /\ pc' = "export_nctool_pngs_for_folder_id"
    /\ result' = ExportIteration(db, geometry_id, poly_format, only_type)
    /\ UNCHANGED <<decodeArgs, guessArgs, final_best, recordArgs, hexdumpArgs,
                   sourceArgs, threads, heap, sheetState, guiState, callerState>>

NextSource == ReadGeometryPolylineBlob \/ ExportNctoolPngs

SpecSource == InitSource /\ [][NextSource]_vars

-----------------------------------------------------------------------------
(* Concurrent calls, one loop iteration at a time.                          *)

\* The record lists that exist before the calls: the inputs handed to
\* summarize_record_types and _extract_points_f64_be. heap[ref] is the content
\* of the list object ref; the lists a call creates are added behind these.
InputLists ==
    << <<RecordOfShape(<<5, <<One, Two, PosZero>>>>),
         RecordOfShape(<<7, <<Two, One>>>>),
         RecordOfShape(<<5, <<PosZero, PosZero, PosZero>>>>)>>,
       <<RecordOfShape(<<7, <<Two, One>>>>),
         RecordOfShape(<<5, <<One, Two, PosZero>>>>)>> >>

\* Mutant of AllocList: one list object, created once, used by every call.
SharedList(h) == IF Len(h) > Len(InputLists) THEN Len(InputLists) + 1 ELSE Len(h) + 1

\* recs = [] / pts = []: the reference of a new list object.
AllocList(h) == Len(h) + 1

\* The heap once the list ref is there.
Created(h, ref) == IF ref > Len(h) THEN Append(h, <<>>) ELSE h

\* recs.append(x) / pts.append(x) on the list object ref.
ListAppend(h, ref, x) == [h EXCEPT ![ref] = Append(@, x)]

\* The checks of parse_polyline before its loop: Some(the error) or None.
ParseChecks(b, f) ==
    IF InvalidFormat(f) THEN Some(Raise("ValueError", "invalid format"))
    ELSE IF BlobShorterThanHeader(b, f)
    THEN Some(Raise("ValueError", "blob shorter than header"))
    ELSE IF BodyNotDivisible(PySliceFrom(b, f.header_len), f)
    THEN Some(Raise("ValueError", "body not divisible by record_len"))
    ELSE None

\* The candidate lists the concurrent guess calls are given.
GuessHeaderList == <<0, 1>>

GuessRecordLenList == <<3, 6>>

\* A call that has not started: its arguments and its (empty) locals, with the
\* number of loop iterations it has completed (steps) and the candidate pairs
\* (h, rlen) guess_polyline_format has entered its inner loop with (visited).
Call(op, b, f, ref, type, stop, limit) ==
    [op |-> op, blob |-> b, fmt |-> f, recs_in |-> ref, only_type |-> type,
     stop_at_zero |-> stop, max_points |-> limit,
     pc |-> "start", i |-> 0, out |-> 0, best |-> None, counts |-> <<>>,
     steps |-> 0, visited |-> <<>>, result |-> NoResult]

ThreadIds == {1, 2}

ConcurrentBlobs == {<<5, 0, 1, 7, 0, 2>>, <<5, 0, 1>>}

Calls ==
    {Call("parse_polyline", b, f, 0, None, FALSE, None) :
        b \in ConcurrentBlobs,
        f \in {PolylineFormat(0, 3), PolylineFormat(0, 4), PolylineFormat(0, 1),
               PolylineFormat(3, 3)}}
    \cup {Call("guess_polyline_format", b, PolylineFormat(0, 0), 0, None, FALSE, None) :
        b \in ConcurrentBlobs}
    \cup {Call("summarize_record_types", <<>>, PolylineFormat(0, 0), ref, None, FALSE, None) :
        ref \in 1..Len(InputLists)}
    \cup {Call("_extract_points_f64_be", <<>>, PolylineFormat(0, 0), ref, type, TRUE, limit) :
        ref \in 1..Len(InputLists), type \in {None, Some(5)}, limit \in {None, Some(1)}}

InitConcurrent ==
    /\ pc = "ready"
    /\ threads \in [ThreadIds -> Calls]
    /\ heap = InputLists
    /\ result = NoResult
    /\ final_best = None
    /\ NoDecodeArgs /\ NoGuessArgs /\ NoRecordArgs /\ NoHexdumpArgs /\ NoSourceArgs
    /\ NoSheetState /\ NoGuiState
    /\ NoCallerState

Idle == UNCHANGED <<pc, decodeArgs, guessArgs, result, final_best, recordArgs,
                    hexdumpArgs, sourceArgs, sheetState, guiState, callerState>>

\* The call enters: the checks before the loop, and the list the loop fills.
Begin(t) ==
    LET c   == threads[t]
        ref == AllocList(heap)
    IN  /\ c.pc = "start"
        /\ IF c.op = "parse_polyline" /\ ParseChecks(c.blob, c.fmt) # None
           THEN /\ threads' = [threads EXCEPT ![t].pc = "done",
                                              ![t].result = ParseChecks(c.blob, c.fmt)[1]]
                /\ heap' = heap
           ELSE IF c.op \in {"parse_polyline", "_extract_points_f64_be"}
           THEN /\ threads' = [threads EXCEPT ![t].pc = "loop", ![t].out = ref]
                /\ heap' = Created(heap, ref)
           ELSE /\ threads' = [threads EXCEPT ![t].pc = "loop"]
                /\ heap' = heap
        /\ Idle

\* Mutant of RecordCount: the header bytes counted as records.
RecordCountWithHeader(b, f) == Len(b) \div f.record_len

\* nrec = len(body) // fmt.record_len
RecordCount(b, f) == Len(PySliceFrom(b, f.header_len)) \div f.record_len

\* One iteration of parse_polyline's loop, or its return.
StepParse(t) ==
    LET c    == threads[t]
        nrec == RecordCount(c.blob, c.fmt)
        rec  == PolylineRecord(c.blob, c.fmt, c.i)
    IN  /\ c.pc = "loop" /\ c.op = "parse_polyline"
        /\ IF c.i >= nrec
           THEN /\ threads' = [threads EXCEPT
                      ![t].pc = "done",
                      ![t].result = Return([header |-> HeaderBytes(c.blob, c.fmt),
                                            recs |-> c.out])]
                /\ heap' = heap
           ELSE IF rec.rec_type_u16 = StructError
           THEN /\ threads' = [threads EXCEPT
                      ![t].pc = "done",
                      ![t].result = Raise("struct.error",
                                          "unpack_from requires a buffer of at least 2 bytes")]
                /\ heap' = heap
           ELSE /\ threads' = [threads EXCEPT ![t].i = c.i + 1, ![t].steps = c.steps + 1]
                /\ heap' = ListAppend(heap, c.out, rec)
        /\ Idle

\* The candidate pairs in the order the two loops reach them.
CandidatePairs ==
    [k \in 1..(Len(GuessHeaderList) * Len(GuessRecordLenList)) |->
        <<GuessHeaderList[((k - 1) \div Len(GuessRecordLenList)) + 1],
          GuessRecordLenList[((k - 1) % Len(GuessRecordLenList)) + 1]>>]

\* What the loop body makes of each pair on each blob, taken alone: None where
\* the pair is skipped, else Some of its (score, fmt).
CandidateOutcomes ==
    [b \in ConcurrentBlobs |->
        [k \in 1..Len(CandidatePairs) |->
            IF HeaderSkipped(b, CandidatePairs[k][1]) THEN None
            ELSE GuessCandidate(None, b, CandidatePairs[k][1], CandidatePairs[k][2])]]

\* One candidate (h, rlen) of guess_polyline_format's loops, or its return:
\* if best is None or score > best[0]: best = (score, fmt)
StepGuess(t) ==
    LET c == threads[t]
        scored == CandidateOutcomes[c.blob][c.i + 1]
    IN  /\ c.pc = "loop" /\ c.op = "guess_polyline_format"
        /\ IF c.i >= Len(CandidatePairs)
           THEN threads' = [threads EXCEPT
                    ![t].pc = "done",
                    ![t].result = Return(IF c.best # None THEN Some(c.best[1].fmt) ELSE None)]
           ELSE threads' = [threads EXCEPT
                    ![t].i = c.i + 1,
                    ![t].steps = c.steps + 1,
                    ![t].visited = IF HeaderSkipped(c.blob, CandidatePairs[c.i + 1][1])
                                   THEN c.visited
                                   ELSE Append(c.visited, CandidatePairs[c.i + 1]),
                    ![t].best = IF scored = None THEN c.best
                                ELSE IF IsBetter(c.best, scored[1].score) THEN scored
                                ELSE c.best]
        /\ heap' = heap
        /\ Idle

\* One iteration of summarize_record_types's loop, or its return.
StepSummarize(t) ==
    LET c == threads[t]
        list == heap[c.recs_in]
        tag == list[c.i + 1].rec_type_u16
    IN  /\ c.pc = "loop" /\ c.op = "summarize_record_types"
        /\ IF c.i >= Len(list)
           THEN threads' = [threads EXCEPT ![t].pc = "done",
                                           ![t].result = Return(DictOf(Sorted(c.counts)))]
           ELSE threads' = [threads EXCEPT
                    ![t].i = c.i + 1,
                    ![t].steps = c.steps + 1,
                    ![t].counts = DictSet(c.counts, tag, DictGet(c.counts, tag, 0) + 1)]
        /\ heap' = heap
        /\ Idle

\* One iteration of _extract_points_f64_be's loop, or its return.
StepExtract(t) ==
    LET c == threads[t]
        list == heap[c.recs_in]
        r == list[c.i + 1]
        done == [threads EXCEPT ![t].pc = "done", ![t].result = Return(c.out)]
    IN  /\ c.pc = "loop" /\ c.op = "_extract_points_f64_be"
        /\ IF c.i >= Len(list)
           THEN threads' = done /\ heap' = heap
           ELSE IF OnlyTypeSkipped(r, c.only_type) \/ TooFewDoubles(r)
           THEN /\ threads' = [threads EXCEPT ![t].i = c.i + 1, ![t].steps = c.steps + 1]
                /\ heap' = heap
           ELSE IF StopsAtZero(c.stop_at_zero, PointOf(r))
           THEN threads' = done /\ heap' = heap
           ELSE /\ heap' = ListAppend(heap, c.out, PointOf(r))
                /\ threads' = IF LimitReached(c.max_points, heap'[c.out]) THEN done
                              ELSE [threads EXCEPT ![t].i = c.i + 1,
                                                   ![t].steps = c.steps + 1]
        /\ Idle

NextConcurrent ==
    \E t \in ThreadIds :
        Begin(t) \/ StepParse(t) \/ StepGuess(t) \/ StepSummarize(t) \/ StepExtract(t)

SpecConcurrent == InitConcurrent /\ [][NextConcurrent]_vars

\* The steps of one call.
Run(t) == Begin(t) \/ StepParse(t) \/ StepGuess(t) \/ StepSummarize(t) \/ StepExtract(t)

\* Every call that can take a step is scheduled again: no thread is starved.
SpecConcurrentFair == SpecConcurrent /\ \A t \in ThreadIds : WF_vars(Run(t))

-----------------------------------------------------------------------------
(* _sanitize_sheet_name (export.py)                                        *)

\* Sheet names are texts: sequences of code points.
\* bad = '[]:*?/\\'
BadChars == {91, 93, 58, 42, 63, 47, 92}

\* "_" and "'"
Underscore == 95

Apostrophe == 39

\* The characters str.strip() removes, among those below 256.
Whitespace == {9, 10, 11, 12, 13, 28, 29, 30, 31, 32, 133, 160}

\* Excel's limit on a sheet name: name[:31]
SheetNameLimit == 31

\* "Sheet"
DefaultSheetName == <<83, 104, 101, 101, 116>>

\* for ch in bad: name = name.replace(ch, "_")
ReplaceBad(name) ==
    [k \in 1..Len(name) |-> IF name[k] \in BadChars THEN Underscore ELSE name[k]]

\* name.lstrip(chars) and name.rstrip(chars)
RECURSIVE LStrip(_, _)
LStrip(name, chars) ==
    IF name # <<>> /\ Head(name) \in chars THEN LStrip(Tail(name), chars) ELSE name

RECURSIVE RStrip(_, _)
RStrip(name, chars) ==
    IF name # <<>> /\ name[Len(name)] \in chars
    THEN RStrip(SubSeq(name, 1, Len(name) - 1), chars)
    ELSE name

\* name.strip(chars)
Strip(name, chars) == RStrip(LStrip(name, chars), chars)

_sanitize_sheet_name(name) ==
    LET stripped == Strip(Strip(ReplaceBad(name), Whitespace), {Apostrophe})
    IN  IF stripped # <<>> THEN PySlice(stripped, 0, SheetNameLimit) ELSE DefaultSheetName

-----------------------------------------------------------------------------
(* _sanitize_sheet_name called once on a name.                             *)

\* A name is a few characters, a run of "a", and a few characters more; the
\* few are at most this many on either side.
MaxAffixLen == 2

\* "a", "'", " ", "[" and "\"
NameChars == {97, 39, 32, 91, 92}

Affixes == UNION {[1..n -> NameChars] : n \in 0..MaxAffixLen}

\* The lengths of the run of "a": none, one, and up to the limit.
RunLengths == {0, 1, SheetNameLimit - 3, SheetNameLimit - 2, SheetNameLimit - 1}

SanitizeInputs ==
    {before \o [k \in 1..n |-> 97] \o after :
        before \in Affixes, n \in RunLengths, after \in Affixes}

InitSanitize ==
    /\ pc = "ready"
    /\ sheet_name \in SanitizeInputs
    /\ used = {} /\ returned = <<>> /\ calls = 0
    /\ result = NoResult
    /\ final_best = None
    /\ NoDecodeArgs /\ NoGuessArgs /\ NoRecordArgs /\ NoHexdumpArgs /\ NoSourceArgs
    /\ NoThreads /\ NoGuiState
    /\ NoCallerState

SanitizeSheetName ==
    /\ pc = "ready"
    /\ pc' = "_sanitize_sheet_name"
    /\ result' = Return(_sanitize_sheet_name(sheet_name))
    /\ UNCHANGED <<decodeArgs, guessArgs, final_best, recordArgs, hexdumpArgs,
                   sourceArgs, threads, heap, sheetState, guiState, callerState>>

NextSanitize == SanitizeSheetName

SpecSanitize == InitSanitize /\ [][NextSanitize]_vars

-----------------------------------------------------------------------------
(* _dedupe_sheet_name(name, used), called again and again on one used set.  *)

SuffixLimit == 1000

Digit(d) == 48 + d

RECURSIVE Decimal(_)
Decimal(i) == IF i < 10 THEN <<Digit(i)>> ELSE Append(Decimal(i \div 10), Digit(i % 10))

\* f"_{i:02d}"
Suffix(i) == <<Underscore>> \o (IF i < 10 THEN <<Digit(0)>> ELSE <<>>) \o Decimal(i)

UntrimmedBase(base, suffix) == base

TrimmedBase(base, suffix) == PySlice(base, 0, SheetNameLimit - Len(suffix))

DedupeCandidate(base, i) == TrimmedBase(base, Suffix(i)) \o Suffix(i)

\* range(1, 1000)
Attempts == 1..(SuffixLimit - 1)

\* The for loop: it stops at the first i whose candidate is not in used, and
\* falls through to the raise when there is none.
DedupeLoop(base, names) ==
    LET free == {i \in Attempts : DedupeCandidate(base, i) \notin names}
    IN  IF free = {}
        THEN [outcome |-> Raise("RuntimeError", "Failed to dedupe sheet name"), used |-> names]
        ELSE LET i == CHOOSE n \in free : \A m \in free : n <= m
                 candidate == DedupeCandidate(base, i)
             IN  [outcome |-> Return(candidate), used |-> names \cup {candidate}]

_dedupe_sheet_name(name, names) ==
    LET base == name
    IN  IF base \notin names
        THEN [outcome |-> Return(base), used |-> names \cup {base}]
        ELSE DedupeLoop(base, names)

MaxSheetCalls == 3

Repeat(ch, n) == [k \in 1..n |-> ch]

\* "a", "a_01", 31 times "x", 28 times "x" and "_01", 30 times "x"
SheetNames ==
    { <<97>>, <<97>> \o Suffix(1), Repeat(120, SheetNameLimit),
      Repeat(120, SheetNameLimit - 3) \o Suffix(1), Repeat(120, SheetNameLimit - 1) }

\* What SuffixLimit calls with the name "a" return, on a used set that was empty.
ExhaustedReturns == [k \in 1..SuffixLimit |-> IF k = 1 THEN <<97>> ELSE <<97>> \o Suffix(k - 1)]

InitDedupe ==
    /\ pc = "ready"
    /\ sheet_name = <<>>
    /\ calls = 0
    /\ returned \in {<<>>, ExhaustedReturns}
    /\ used = {returned[k] : k \in 1..Len(returned)}
    /\ result = NoResult
    /\ final_best = None
    /\ NoDecodeArgs /\ NoGuessArgs /\ NoRecordArgs /\ NoHexdumpArgs /\ NoSourceArgs
    /\ NoThreads /\ NoGuiState
    /\ NoCallerState

DedupeSheetName ==
    /\ pc \in {"ready", "_dedupe_sheet_name"}
    /\ calls < MaxSheetCalls
    /\ \E name \in SheetNames :
         LET out == _dedupe_sheet_name(name, used)
         IN  /\ sheet_name' = name
             /\ used' = out.used
             /\ result' = out.outcome
             /\ returned' = IF out.outcome.raised = "none"
                            THEN Append(returned, out.outcome.value[1])
                            ELSE returned
    /\ calls' = calls + 1
    /\ pc' = "_dedupe_sheet_name"
    /\ UNCHANGED <<decodeArgs, guessArgs, final_best, recordArgs, hexdumpArgs,
                   sourceArgs, threads, heap, guiState, callerState>>

NextDedupe == DedupeSheetName

SpecDedupe == InitDedupe /\ [][NextDedupe]_vars

-----------------------------------------------------------------------------
(* The GUI's export buttons, worker threads, queue q and pump_queue.       *)
(* busy is read and written by the Tk thread only (run_in_thread and       *)
(* pump_queue are Tk callbacks); the workers touch nothing but q.          *)

MaxPresses == 3

Buttons == {"do_export_selected", "do_export_all_fast", "do_export_all_by_sheet"}

Put(kind, in_export) == [put |-> kind, in_export |-> in_export]

\* The statements of each worker's try block, in order: the message the
\* statement puts on q ("" for none), and whether it runs inside the export
\* function, where an exception can be raised.  The export_all functions call
\* the progress callback three times.
Script(button) ==
    IF button = "do_export_selected"
    THEN <<Put("progress", FALSE), Put("", TRUE), Put("progress", FALSE), Put("done", FALSE)>>
    ELSE <<Put("progress", TRUE), Put("progress", TRUE), Put("progress", TRUE), Put("done", FALSE)>>

HandlerPutsNothing == <<>>

\* except Exception as e: q.put(("error", 0, 1, str(e)))
HandlerPuts == <<"error">>

Message(kind, w) == [kind |-> kind, from |-> w]

Worker(button) == [fn |-> button, at |-> 1, raised |-> FALSE, sent |-> <<>>, acked |-> FALSE]

WorkerDone(w) == workers[w].at > Len(Script(workers[w].fn))

NeverBlocks(flag) == FALSE

\* if busy["flag"]: showwarning; return
BusyBlocks(flag) == flag

InitGui ==
    /\ pc = "ready"
    /\ NoGuiState
    /\ NoCallerState
    /\ result = NoResult
    /\ final_best = None
    /\ NoDecodeArgs /\ NoGuessArgs /\ NoRecordArgs /\ NoHexdumpArgs /\ NoSourceArgs
    /\ NoThreads /\ NoSheetState

idleGui == <<pc, decodeArgs, guessArgs, result, final_best, recordArgs, hexdumpArgs,
             sourceArgs, threads, heap, sheetState, callerState>>

\* A button press: do_export_* returns early when the DB path or the selection
\* is missing (valid = FALSE); otherwise it calls run_in_thread(worker).
Press(button) ==
    /\ presses < MaxPresses
    /\ presses' = presses + 1
    /\ \E valid \in BOOLEAN :
         IF ~valid \/ BusyBlocks(busy)
         THEN UNCHANGED <<busy, queue, workers>>
         ELSE /\ busy' = TRUE
              /\ workers' = Append(workers, Worker(button))
              /\ UNCHANGED queue
    /\ UNCHANGED idleGui

\* One statement of worker w: it puts its message, or, inside the export
\* function, an exception takes it to the except clause instead.
WorkerStep(w) ==
    /\ w \in 1..Len(workers)
    /\ ~WorkerDone(w)
    /\ LET me == workers[w]
           stmt == Script(me.fn)[me.at]
       IN  \E raises \in (IF stmt.in_export THEN BOOLEAN ELSE {FALSE}) :
             LET puts == IF raises THEN HandlerPuts
                         ELSE IF stmt.put = "" THEN <<>> ELSE <<stmt.put>>
             IN  /\ queue' = queue \o [k \in 1..Len(puts) |-> Message(puts[k], w)]
                 /\ workers' = [workers EXCEPT ![w] =
                        [me EXCEPT !.at = IF raises THEN Len(Script(me.fn)) + 1 ELSE me.at + 1,
                                   !.raised = raises,
                                   !.sent = me.sent \o puts]]
    /\ UNCHANGED <<busy, presses>>
    /\ UNCHANGED idleGui

\* One q.get_nowait() of pump_queue's loop and the branch taken on its kind.
\* On queue.Empty the tick ends with nothing changed and is scheduled again.
PumpQueue ==
    /\ queue # <<>>
    /\ LET m == Head(queue)
       IN  /\ queue' = Tail(queue)
           /\ busy' = IF m.kind \in {"done", "error"} THEN FALSE ELSE busy
           /\ workers' = IF m.kind \in {"done", "error"}
                         THEN [workers EXCEPT ![m.from].acked = TRUE]
                         ELSE workers
    /\ UNCHANGED presses
    /\ UNCHANGED idleGui

NextGui ==
    \/ \E button \in Buttons : Press(button)
    \/ \E w \in 1..MaxPresses : WorkerStep(w)
    \/ PumpQueue

SpecGui == InitGui /\ [][NextGui]_vars

\* The threads are scheduled by the interpreter, and every pump_queue tick
\* ends with root.after(100, pump_queue).
SpecGuiFair ==
    /\ SpecGui
    /\ WF_vars(PumpQueue)
    /\ \A w \in 1..MaxPresses : WF_vars(WorkerStep(w))

-----------------------------------------------------------------------------
(* The callers of the pipeline: cmd_summary, cmd_dump and cmd_plot of      *)
(* scripts/inspect_polyline.py and export_nctool_pngs_for_folder_id, one   *)
(* library call at a time.  cmd_summary and the export function loop over  *)
(* several geometries; cmd_dump and cmd_plot handle one.                   *)

MaxBatch == 2

Callers == {"cmd_summary", "cmd_dump", "cmd_plot", "export_nctool_pngs_for_folder_id"}

IsBatch(fn) == fn \in {"cmd_summary", "export_nctool_pngs_for_folder_id"}

\* Geometries as the callers find it: a polyline of two 26-byte records, bytes
\* no candidate format fits, no bytes, and a NULL polyline.
CallerDb ==
    <<Cell("bytes", PackU16LeBytes(5) \o One \o Two \o PosZero
                        \o PackU16LeBytes(5) \o PosZero \o PosZero \o PosZero),
      Cell("bytes", <<1, 2, 3, 4, 5>>),
      Cell("bytes", <<>>),
      Cell("NoneType", <<>>)>>

GidLists(fn) ==
    IF IsBatch(fn)
    THEN UNION {[1..n -> DOMAIN CallerDb] : n \in 0..MaxBatch}
    ELSE [1..1 -> DOMAIN CallerDb]

Event(op, n, ok, f) == [op |-> op, n |-> n, ok |-> ok, fmt |-> f]

InitCaller ==
    /\ pc = "ready"
    /\ caller \in Callers
    /\ arg_header \in {None, Some(0)}
    /\ arg_record_len \in {None, Some(26), Some(7)}
    /\ gids \in GidLists(caller)
    /\ db = CallerDb
    /\ frame = EmptyFrame /\ trace = <<>> /\ exit_code = None
    /\ geometry_id = 0 /\ poly_format = None
    /\ result = NoResult
    /\ final_best = None
    /\ NoDecodeArgs /\ NoGuessArgs /\ NoRecordArgs /\ NoHexdumpArgs
    /\ NoThreads /\ NoSheetState /\ NoGuiState

idleCaller == <<decodeArgs, guessArgs, final_best, recordArgs, hexdumpArgs,
                sourceArgs, threads, heap, sheetState, guiState,
                caller, arg_header, arg_record_len>>

\* return code (cmd_*) or fall off the loop's end.
Leave(code) ==
    /\ pc' = "returned"
    /\ exit_code' = code
    /\ UNCHANGED <<gids, frame>>

\* What the function returns when its loop is over: cmd_summary prints its
\* tables and returns 0, the export function returns (n_ok, n_total).
AfterLoop == IF caller = "cmd_summary" THEN Some(0) ELSE None

\* continue: on to the next geometry, or out of the loop after the last one.
Continue ==
    /\ gids' = Tail(gids)
    /\ frame' = [EmptyFrame EXCEPT !.n = frame.n + 1]
    /\ pc' = IF Tail(gids) = <<>> THEN "returned" ELSE "fetch"
    /\ exit_code' = IF Tail(gids) = <<>> THEN AfterLoop ELSE exit_code

\* return 1 in cmd_dump and cmd_plot, continue in the two loops.
GiveUp == IF IsBatch(caller) THEN Continue ELSE Leave(Some(1))

\* The function is entered: cmd_summary returns 1 when no geometry has a
\* polyline, and a loop over no rows ends at once.
EnterCaller ==
    /\ pc = "ready"
    /\ IF gids = <<>>
       THEN Leave(IF caller = "cmd_summary" THEN Some(1) ELSE None)
       ELSE pc' = "fetch" /\ UNCHANGED <<gids, frame, exit_code>>
    /\ UNCHANGED <<result, trace>>
    /\ UNCHANGED idleCaller

\* blob = read_geometry_polyline_blob(db_path, gid), outside every try.
FetchBlob ==
    /\ pc = "fetch"
    /\ LET read == read_geometry_polyline_blob(db, Head(gids))
       IN  /\ result' = read
           /\ trace' = Append(trace, Event("read_geometry_polyline_blob", frame.n,
                                           read.raised = "none", None))
           /\ IF read.raised # "none"
              THEN pc' = "raised" /\ UNCHANGED <<gids, frame, exit_code>>
              ELSE /\ frame' = [frame EXCEPT !.blob = Some(read.value[1])]
                   /\ pc' = "choose_format"
                   /\ UNCHANGED <<gids, exit_code>>
    /\ UNCHANGED idleCaller

FormatNeverMissing(chosen) == FALSE

\* if fmt is None
FormatMissing(chosen) == chosen = None

\* header is not None and record_len is not None
FormatSupplied == arg_header # None /\ arg_record_len # None

\* The format is the caller's own when both numbers were given, otherwise
\* guess_polyline_format(blob); without a format the geometry is given up.
ChooseFormat ==
    /\ pc = "choose_format"
    /\ LET b == frame.blob[1]
           guess == guess_polyline_format(b, DefaultHeaders, DefaultRecordLens)
           chosen == IF FormatSupplied
                     THEN Some(PolylineFormat(arg_header[1], arg_record_len[1]))
                     ELSE guess.value[1]
       IN  /\ trace' = IF FormatSupplied THEN trace
                       ELSE Append(trace, Event("guess_polyline_format", frame.n,
                                                guess.value[1] # None, guess.value[1]))
           /\ result' = IF FormatSupplied THEN result ELSE guess
           /\ IF FormatMissing(chosen)
              THEN GiveUp
              ELSE /\ frame' = [frame EXCEPT !.fmt = chosen]
                   /\ pc' = "parse_polyline"
                   /\ UNCHANGED <<gids, exit_code>>
    /\ UNCHANGED idleCaller

\* try: _, recs = parse_polyline(blob, fmt) / except Exception: give up.
\* parse_polyline(blob, None) fails on fmt.header_len.
Decode ==
    /\ pc = "parse_polyline"
    /\ LET parsed == IF frame.fmt = None
                     THEN Raise("AttributeError", "'NoneType' object has no attribute 'record_len'")
                     ELSE parse_polyline(frame.blob[1], frame.fmt[1])
       IN  /\ result' = parsed
           /\ trace' = Append(trace, Event("parse_polyline", frame.n,
                                           parsed.raised = "none", frame.fmt))
           /\ IF parsed.raised # "none"
              THEN GiveUp
              ELSE /\ frame' = [frame EXCEPT !.recs = Some(parsed.value[1].recs)]
                   /\ pc' = "consume"
                   /\ UNCHANGED <<gids, exit_code>>
    /\ UNCHANGED idleCaller

\* The consumer of the records: summarize_record_types in cmd_summary and
\* cmd_dump, _extract_points_f64_be in cmd_plot, _extract_points_f64_be_xyz in
\* the export function.  What follows it (printing, drawing) is left out.
Consumer(fn) ==
    IF fn \in {"cmd_summary", "cmd_dump"} THEN "summarize_record_types"
    ELSE IF fn = "cmd_plot" THEN "_extract_points_f64_be"
    ELSE "_extract_points_f64_be_xyz"

Consume ==
    /\ pc = "consume"
    /\ LET recs == frame.recs[1]
           out == IF Consumer(caller) = "summarize_record_types"
                  THEN Return(summarize_record_types(recs))
                  ELSE IF Consumer(caller) = "_extract_points_f64_be"
                  THEN Return(_extract_points_f64_be(recs, None, TRUE, None))
                  ELSE Return(_extract_points_f64_be_xyz(recs, None, TRUE, None))
       IN  /\ result' = out
           /\ trace' = Append(trace, Event(Consumer(caller), frame.n, TRUE, frame.fmt))
           /\ IF IsBatch(caller) THEN Continue
              ELSE IF caller = "cmd_plot" /\ out.value[1] = <<>> THEN Leave(Some(1))
              ELSE Leave(Some(0))
    /\ UNCHANGED idleCaller

NextCaller == EnterCaller \/ FetchBlob \/ ChooseFormat \/ Decode \/ Consume

SpecCaller == InitCaller /\ [][NextCaller]_vars

-----------------------------------------------------------------------------
(* Either operation called once on an input.                               *)

Init == InitDecode \/ InitGuess

Next == ParsePolyline \/ GuessPolylineFormat

Spec == Init /\ [][Next]_vars

-----------------------------------------------------------------------------
(* Properties of parse_polyline.                                           *)

Decoded == pc = "parse_polyline"

Succeeded == Decoded /\ result.raised = "none"

Records == result.value[1].recs

Header == result.value[1].header

BodyLen == Len(blob) - fmt.header_len

\* m is a whole multiple of r (for any integers m and r).
EvenlyDivisible(m, r) ==
    \E q \in -(Len(blob) + 1)..(Len(blob) + 1) : q * r = m

\* C1: with 0 <= header_len <= len(blob), record_len > 2 and a body divisible by
\* record_len, parse_polyline succeeds and returns exactly
\* (len(blob) - header_len) // record_len records, record i having index i and
\* offset header_len + i*record_len (zero records when header_len = len(blob)).
C1_DecodeCountsAndOffsets ==
    (/\ Decoded
     /\ 0 <= fmt.header_len
     /\ fmt.header_len <= Len(blob)
     /\ fmt.record_len > 2
     /\ BodyLen % fmt.record_len = 0)
    => /\ result.raised = "none"
       /\ Len(Records) = BodyLen \div fmt.record_len
       /\ \A k \in 1..Len(Records) :
            /\ Records[k].index = k - 1
            /\ Records[k].offset = fmt.header_len + (k - 1) * fmt.record_len
       /\ \A j, k \in 1..Len(Records) :
            j < k => /\ Records[j].index < Records[k].index
                     /\ Records[j].offset < Records[k].offset

C1_Witness ==
    /\ Succeeded
    /\ fmt.header_len > 0
    /\ fmt.record_len > 2
    /\ Len(Records) >= 2
    /\ Records[2].offset = fmt.header_len + fmt.record_len

\* C2: when len(blob) - header_len is not a whole multiple of record_len,
\* parse_polyline raises ValueError (the decoder's format error) and returns
\* nothing: neither header bytes nor a partial record list.
C2_NonDivisibleRaises ==
    (Decoded /\ ~EvenlyDivisible(BodyLen, fmt.record_len))
    => /\ result.raised = "ValueError"
       /\ result.value = <<>>

C2_Witness ==
    /\ Decoded
    /\ Len(blob) = 7
    /\ fmt.header_len = 0
    /\ fmt.record_len = 3
    /\ result.raised = "ValueError"
    /\ result.msg = "body not divisible by record_len"

\* C3: parse_polyline fails with ValueError for every record_len <= 2, so that
\* a successfully decoded record always has a payload of record_len - 2 >= 1 bytes.
C3_ShortRecordLenRejected ==
    /\ (Decoded /\ fmt.record_len <= 2) => result.raised = "ValueError"
    /\ Succeeded =>
         \A k \in 1..Len(Records) :
            /\ Len(Records[k].payload) = fmt.record_len - 2
            /\ Len(Records[k].payload) >= 1

\* C4: parse_polyline fails with ValueError whenever header_len < 0 or
\* header_len > len(blob), whatever record_len is, at the checks that precede
\* the record loop.
C4_HeaderOutOfRangeRaises ==
    (Decoded /\ (fmt.header_len < 0 \/ fmt.header_len > Len(blob)))
    => /\ result.raised = "ValueError"
       /\ result.value = <<>>
       /\ result.msg \in {"invalid format", "blob shorter than header"}

C4_Witness ==
    /\ Decoded
    /\ fmt.header_len > Len(blob)
    /\ fmt.record_len > 2
    /\ Len(blob) > 0
    /\ result.raised = "ValueError"
    /\ result.msg = "blob shorter than header"

\* struct.pack("<H", t)
PackU16Le(t) == <<t % 256, t \div 256>>

\* The bytes of record k as the layout writes them: type tag, then payload.
RecordBytes(rec) == PackU16Le(rec.rec_type_u16) \o rec.payload

RECURSIVE ConcatRecords(_)
ConcatRecords(recs) ==
    IF recs = <<>> THEN <<>>
    ELSE RecordBytes(Head(recs)) \o ConcatRecords(Tail(recs))

\* C5: after a successful decode the header is blob[0:header_len], every record's
\* window blob[offset : offset+record_len] is its type tag (2 bytes, little-endian)
\* followed by its payload, and header ++ record_0 ++ record_1 ++ ... is the blob.
C5_LayoutRoundTrip ==
    Succeeded
    => /\ Header = SubSeq(blob, 1, fmt.header_len)
       /\ \A k \in 1..Len(Records) :
            SubSeq(blob, Records[k].offset + 1, Records[k].offset + fmt.record_len)
              = RecordBytes(Records[k])
       /\ \A k \in 1..(Len(Records) - 1) :
            Records[k + 1].offset = Records[k].offset + fmt.record_len
       /\ Header \o ConcatRecords(Records) = blob

C5_Witness ==
    /\ Succeeded
    /\ fmt.header_len = 1
    /\ fmt.record_len = 3
    /\ Len(Records) = 2
    /\ Header = <<250>>
    /\ Header \o ConcatRecords(Records) = blob

\* C6: every decoded record's type tag is byte0 + 256*byte1 of its window (so
\* within 0..65535) and its payload is the remaining record_len - 2 bytes.
C6_TypeTagAndPayload ==
    Succeeded
    => \A k \in 1..Len(Records) :
          LET off == fmt.header_len + (k - 1) * fmt.record_len
          IN  /\ Records[k].rec_type_u16 = blob[off + 1] + 256 * blob[off + 2]
              /\ Records[k].rec_type_u16 \in 0..65535
              /\ Records[k].payload = SubSeq(blob, off + 3, off + fmt.record_len)
              /\ Len(Records[k].payload) = fmt.record_len - 2

C6_Witness ==
    /\ Succeeded
    /\ Len(Records) >= 1
    /\ blob[fmt.header_len + 1] = 0
    /\ blob[fmt.header_len + 2] = 255
    /\ Records[1].rec_type_u16 = 65280
    /\ Len(Records[1].payload) >= 1

\* struct.pack of one double / float / int, the inverses of the unpack operators.
PackD(x, endian) == IF endian = "<" THEN Reverse(x) ELSE x

PackF32Le(x) == Reverse(x)

PackI32Le(v) ==
    LET w == IF v < 0 THEN (v + 2147483647) + 1 ELSE v
    IN  <<w % 256, (w \div 256) % 256, (w \div 65536) % 256,
          (w \div 16777216) + (IF v < 0 THEN 128 ELSE 0)>>

\* C7: for a payload of p bytes the views have floor(p/8), floor(p/8), floor(p/4)
\* and floor(p/4) elements, each view being the decoding of the leading
\* whole-element prefix of the payload, and no payload length makes a record fail.
C7_ViewLengths ==
    /\ (/\ Decoded
        /\ 0 <= fmt.header_len
        /\ fmt.header_len <= Len(blob)
        /\ fmt.record_len >= 2
        /\ BodyLen % fmt.record_len = 0) => result.raised = "none"
    /\ Succeeded =>
         \A k \in 1..Len(Records) :
            LET r == Records[k]
                p == Len(r.payload)
            IN  /\ Len(r.f64_le) = p \div 8
                /\ Len(r.f64_be) = p \div 8
                /\ Len(r.f32_le) = p \div 4
                /\ Len(r.i32_le) = p \div 4
                /\ Flatten([j \in 1..Len(r.f64_le) |-> PackD(r.f64_le[j], "<")])
                     = SubSeq(r.payload, 1, 8 * (p \div 8))
                /\ Flatten([j \in 1..Len(r.f64_be) |-> PackD(r.f64_be[j], ">")])
                     = SubSeq(r.payload, 1, 8 * (p \div 8))
                /\ Flatten([j \in 1..Len(r.f32_le) |-> PackF32Le(r.f32_le[j])])
                     = SubSeq(r.payload, 1, 4 * (p \div 4))
                /\ Flatten([j \in 1..Len(r.i32_le) |-> PackI32Le(r.i32_le[j])])
                     = SubSeq(r.payload, 1, 4 * (p \div 4))

C7_Witness ==
    /\ Succeeded
    /\ Len(Records) >= 1
    /\ Len(Records[1].payload) = 10
    /\ Len(Records[1].f64_le) = 1
    /\ Len(Records[1].f64_be) = 1
    /\ Len(Records[1].f32_le) = 2
    /\ Len(Records[1].i32_le) = 2
    /\ Records[1].i32_le[1] < 0
    /\ Records[1].f64_le[1] # Records[1].f64_be[1]

-----------------------------------------------------------------------------
(* Properties of guess_polyline_format.                                    *)

Guessed == pc = "guess_polyline_format"

\* The guess: None, or Some(format).
Guess == result.value[1]

\* The positions <<i, j>> of the candidate pairs in scanning order: header
\* candidates outer, record-length candidates inner.
CandidatePositions ==
    (1..Len(candidate_headers)) \X (1..Len(candidate_record_lens))

Earlier(p, q) == p[1] < q[1] \/ (p[1] = q[1] /\ p[2] < q[2])

HeaderAt(p) == candidate_headers[p[1]]

RecordLenAt(p) == candidate_record_lens[p[2]]

\* The pair at position p passes the filters: the header lies inside the blob,
\* the record length exceeds 2 and the body is a positive multiple of it.
Survives(p) ==
    /\ 0 <= HeaderAt(p)
    /\ HeaderAt(p) < Len(blob)
    /\ RecordLenAt(p) > 2
    /\ (Len(blob) - HeaderAt(p)) % RecordLenAt(p) = 0

Survivors == {p \in CandidatePositions : Survives(p)}

\* The score of the records that the pair at position p decodes.
ScoreAt(p) ==
    Score(parse_polyline(blob, PolylineFormat(HeaderAt(p), RecordLenAt(p))).value[1].recs)

C9_NoneIffNoSurvivor ==
    Guessed
    => /\ result.raised = "none"
       /\ Len(result.value) = 1
       /\ (Guess = None) <=> (Survivors = {})
       /\ Guess # None =>
            /\ Len(Guess) = 1
            /\ DOMAIN Guess[1] = {"header_len", "record_len"}
       /\ blob = <<>> => Guess = None

C9_Witness ==
    /\ Guessed
    /\ blob # <<>>
    /\ \E p \in CandidatePositions :
          /\ 0 <= HeaderAt(p)
          /\ HeaderAt(p) < Len(blob)
          /\ RecordLenAt(p) > 2
    /\ Survivors = {}
    /\ result.raised = "none"
    /\ Guess = None

\* C10: a guessed format (h, r) is a pair of the candidate lists with
\* 0 <= h < len(blob), r > 2 and (len(blob) - h) % r = 0, so parse_polyline
\* succeeds on it with at least one record.
C10_GuessedFormatIsValid ==
    (Guessed /\ Guess # None)
    => LET h == Guess[1].header_len
           r == Guess[1].record_len
       IN  /\ \E p \in CandidatePositions : h = HeaderAt(p) /\ r = RecordLenAt(p)
           /\ 0 <= h
           /\ h < Len(blob)
           /\ r > 2
           /\ (Len(blob) - h) % r = 0
           /\ parse_polyline(blob, Guess[1]).raised = "none"
           /\ Len(parse_polyline(blob, Guess[1]).value[1].recs) >= 1

C10_Witness ==
    /\ Guessed
    /\ Guess # None
    /\ Guess[1].header_len = 3
    /\ Guess[1].record_len = 3
    /\ Len(blob) = 6
    /\ \E p \in CandidatePositions : HeaderAt(p) = 0 /\ RecordLenAt(p) = 2

\* Fractions [num, den] with den > 0.
Frac(a, b) == [num |-> a, den |-> b]

FracAdd(x, y) == Frac(x.num * y.den + y.num * x.den, x.den * y.den)

FracMul(x, y) == Frac(x.num * y.num, x.den * y.den)

\* The type tags that the guessed layout reads from the blob: tag i (0-based)
\* is the little-endian u16 at header_len + i*record_len.
BestFormat == final_best[1].fmt

BestCount == (Len(blob) - BestFormat.header_len) \div BestFormat.record_len

BestTag(i) ==
    blob[BestFormat.header_len + i * BestFormat.record_len + 1]
      + 256 * blob[BestFormat.header_len + i * BestFormat.record_len + 2]

BestHeadCount == IF BestCount < 10 THEN BestCount ELSE 10

\* The number of occurrences of tag t among the first BestHeadCount records.
BestHeadOccurrences(t) == Cardinality({i \in 0..(BestHeadCount - 1) : BestTag(i) = t})

\* C11: the score of a surviving candidate with n >= 1 records is
\* 1.0*small_ratio + 0.6*(1 - uniq_ratio) + 0.2*head_bias, with small_ratio the
\* share of tags <= 1024, uniq_ratio the number of distinct tags over n, and
\* head_bias the share of the most frequent tag among the first min(10, n) records.
C11_ScoreFormula ==
    (Guessed /\ final_best # None)
    => LET n          == BestCount
           small      == Cardinality({i \in 0..(n - 1) : BestTag(i) <= 1024})
           uniq       == Cardinality({BestTag(i) : i \in 0..(n - 1)})
           most       == CHOOSE m \in 1..BestHeadCount :
                            /\ \E i \in 0..(BestHeadCount - 1) : BestHeadOccurrences(BestTag(i)) = m
                            /\ \A i \in 0..(BestHeadCount - 1) : BestHeadOccurrences(BestTag(i)) <= m
           small_ratio == Frac(small, n)
           uniq_ratio  == Frac(uniq, n)
           head_bias   == Frac(most, BestHeadCount)
           expected    == FracAdd(small_ratio,
                            FracAdd(FracMul(Frac(3, 5), Frac(n - uniq, n)),
                                    FracMul(Frac(1, 5), head_bias)))
       IN  /\ n >= 1
           /\ final_best[1].score.den > 0
           /\ ScoreEqual(final_best[1].score, expected)

C11_Witness ==
    /\ Guessed
    /\ final_best # None
    /\ BestCount = 12
    /\ BestTag(0) = 1024
    /\ BestTag(10) = 1025
    /\ BestHeadOccurrences(1024) = 10
    /\ ScoreEqual(final_best[1].score, Frac(23, 15))

-----------------------------------------------------------------------------
(* Properties of summarize_record_types.                                   *)

Summarized == pc = "summarize_record_types"

Summary == result.value[1]

RECURSIVE SumOfCounts(_)
SumOfCounts(d) == IF d = <<>> THEN 0 ELSE Head(d)[2] + SumOfCounts(Tail(d))

\* C13: the summary's keys are exactly the distinct type tags of the records,
\* each with its number of occurrences, in order of descending count and, at
\* equal count, ascending tag; the counts add up to len(records); no records
\* give the empty mapping.
C13_SummarySortedCounts ==
    Summarized
    => /\ result.raised = "none"
       /\ DictKeys(Summary) = {records[k].rec_type_u16 : k \in 1..Len(records)}
       /\ \A j, k \in 1..Len(Summary) : j # k => Summary[j][1] # Summary[k][1]
       /\ \A j \in 1..Len(Summary) :
            Summary[j][2] =
              Cardinality({k \in 1..Len(records) : records[k].rec_type_u16 = Summary[j][1]})
       /\ \A j, k \in 1..Len(Summary) :
            j < k => \/ Summary[j][2] > Summary[k][2]
                     \/ (Summary[j][2] = Summary[k][2] /\ Summary[j][1] < Summary[k][1])
       /\ SumOfCounts(Summary) = Len(records)
       /\ records = <<>> => Summary = <<>>

C13_Witness ==
    /\ Summarized
    /\ Len(records) = 4
    /\ records[1].rec_type_u16 = 7
    /\ records[2].rec_type_u16 = 5
    /\ records[4].rec_type_u16 = 3
    /\ Summary = <<<<5, 2>>, <<3, 1>>, <<7, 1>>>>

-----------------------------------------------------------------------------
(* Properties of _extract_points_f64_be.                                   *)

Extracted == pc = "_extract_points_f64_be"

Points == result.value[1]

\* The point (x, y, z) equals (0.0, 0.0, 0.0) as Python compares floats.
IsZeroPoint(p) == \A c \in 1..3 : p[c][1] \in {0, 128} /\ \A k \in 2..8 : p[c][k] = 0

\* C14: with stop_at_zero the returned sequence never contains the point
\* (0.0, 0.0, 0.0), whatever the records, only_type and max_points.
C14_NoSentinelReturned ==
    (Extracted /\ stop_at_zero)
    => \A k \in 1..Len(Points) : ~IsZeroPoint(Points[k])

C14_Witness ==
    /\ Extracted
    /\ stop_at_zero
    /\ Len(records) = 3
    /\ Len(records[2].f64_be) = 2
    /\ records[2].f64_be[2] = NegZero
    /\ Len(Points) = 1
    /\ Points[1] = <<One, Two, PosZero>>
    /\ max_points = None

\* C15: with max_points set to any integer, 0 included, the returned sequence
\* is never longer than max_points.
C15_NeverExceedsMaxPoints ==
    (Extracted /\ max_points # None /\ max_points[1] >= 0)
    => Len(Points) <= max_points[1]

\* The records that pass the only_type filter and hold at least 2 doubles, in order.
RECURSIVE UsableRecords(_, _)
UsableRecords(recs, type) ==
    IF recs = <<>> THEN <<>>
    ELSE IF (type = None \/ Head(recs).rec_type_u16 = type[1]) /\ Len(Head(recs).f64_be) >= 2
         THEN <<Head(recs)>> \o UsableRecords(Tail(recs), type)
         ELSE UsableRecords(Tail(recs), type)

UsablePoints ==
    LET usable == UsableRecords(records, only_type)
    IN  [k \in 1..Len(usable) |->
           <<usable[k].f64_be[1], usable[k].f64_be[2],
             IF Len(usable[k].f64_be) >= 3 THEN usable[k].f64_be[3] ELSE PosZero>>]

\* C16: with only_type set, the points come only from records of that type, in
\* the records' order and without deduplication (the output is a leading part of
\* the matching usable records' points), and the skipped records do not count
\* toward max_points.
C16_OnlyTypeFilter ==
    (Extracted /\ only_type # None)
    => /\ Len(Points) <= Len(UsablePoints)
       /\ Points = SubSeq(UsablePoints, 1, Len(Points))
       /\ (~stop_at_zero /\ max_points = None) => Points = UsablePoints
       /\ (~stop_at_zero /\ max_points # None /\ max_points[1] >= 1)
            => Len(Points) = Min(max_points[1], Len(UsablePoints))

C16_Witness ==
    /\ Extracted
    /\ only_type = Some(5)
    /\ ~stop_at_zero
    /\ max_points = Some(2)
    /\ Len(records) = 3
    /\ records[1].rec_type_u16 = 5
    /\ records[2].rec_type_u16 = 7
    /\ Len(records[2].f64_be) = 2
    /\ records[3] = records[1]
    /\ Points = <<<<One, Two, PosZero>>, <<One, Two, PosZero>>>>

-----------------------------------------------------------------------------
(* Properties of hexdump.                                                  *)

Hexdumped == pc = "hexdump"

\* C17: hexdump never raises, for any data and any integers width and
\* max_bytes, 0 and negative values included.
C17_HexdumpNeverRaises == Hexdumped => result.raised = "none"

\* text.split("\n"), with no line for the empty text.
RECURSIVE SplitLines(_, _)
SplitLines(text, line) ==
    IF text = <<>> THEN (IF line = <<>> THEN <<>> ELSE <<line>>)
    ELSE IF Head(text) = Newline[1] THEN <<line>> \o SplitLines(Tail(text), <<>>)
    ELSE SplitLines(Tail(text), Append(line, Head(text)))

Lines == SplitLines(result.value[1], <<>>)

IsNote(line) == Len(line) >= 3 /\ SubSeq(line, 1, 3) = <<Dot, Dot, Dot>>

RowLines == SelectSeq(Lines, LAMBDA line : ~IsNote(line))

NoteLines == SelectSeq(Lines, LAMBDA line : IsNote(line))

HexValue(c) == (CHOOSE k \in 1..16 : HexDigits[k] = c) - 1

\* The number a run of hex digits writes.
RECURSIVE ParseHex(_)
ParseHex(digits) ==
    IF digits = <<>> THEN 0
    ELSE 16 * ParseHex(SubSeq(digits, 1, Len(digits) - 1)) + HexValue(digits[Len(digits)])

\* The bytes written in the hex column of a row: two digits every three
\* characters from character 11, up to the first blank.
RECURSIVE RowBytes(_, _)
RowBytes(line, at) ==
    IF at + 1 > Len(line) \/ line[at] = Space[1] THEN <<>>
    ELSE <<ParseHex(SubSeq(line, at, at + 1))>> \o RowBytes(line, at + 3)

\* The number a run of decimal digits in a note writes.
NoteTotal(line) ==
    LET RECURSIVE Value(_, _)
        Value(at, acc) ==
            IF line[at] = Space[1] THEN acc ELSE Value(at + 1, 10 * acc + HexValue(line[at]))
    IN  Value(6, 0)

\* ceil(a / w), for w >= 1
Ceil(a, w) == -((-a) \div w)

\* The number of leading bytes max_bytes allows: none when it is negative.
Shown == Min(Len(data), Max(max_bytes, 0))

\* The rows render the first Shown bytes, width to a row, each row after its
\* starting address, and the note is there exactly when data is longer than
\* max_bytes, carrying len(data).
RendersLeadingBytes ==
    /\ Len(RowLines) = Ceil(Shown, width)
    /\ \A k \in 1..Len(RowLines) :
          /\ ParseHex(SubSeq(RowLines[k], 1, 8)) = (k - 1) * width
          /\ Len(RowBytes(RowLines[k], 11)) <= width
          /\ RowBytes(RowLines[k], 11)
                = SubSeq(data, (k - 1) * width + 1, Min(k * width, Shown))
    /\ Lines = RowLines \o NoteLines
    /\ Len(NoteLines) = (IF Len(data) > max_bytes THEN 1 ELSE 0)
    /\ \A k \in 1..Len(NoteLines) : NoteTotal(NoteLines[k]) = Len(data)

\* C18: for every width >= 1 and every integer max_bytes, hexdump renders at
\* most max_bytes leading bytes of data (none for a negative max_bytes), as
\* ceil(min(len(data), max_bytes) / width) rows, each prefixed by its starting
\* byte address and holding at most width bytes, and appends the truncation
\* note carrying len(data) if and only if len(data) > max_bytes.
C18_RowsAndTruncationNote == (Hexdumped /\ width >= 1) => RendersLeadingBytes

\* The same rendering for max_bytes >= 0, where the slice data[:max_bytes]
\* takes leading bytes.
RendersWithinMaxBytes ==
    (Hexdumped /\ width >= 1 /\ max_bytes >= 0) => RendersLeadingBytes

RenderedWithNote ==
    /\ Hexdumped
    /\ width = 2
    /\ max_bytes = 3
    /\ data = <<65, 10, 255, 0>>
    /\ Len(RowLines) = 2
    /\ RowBytes(RowLines[2], 11) = <<255>>
    /\ NoteLines = <<TruncationNote(data)>>

-----------------------------------------------------------------------------
(* Properties of read_geometry_polyline_blob.                              *)

ReadDone == pc = "read_geometry_polyline_blob"

ExportDone == pc = "export_nctool_pngs_for_folder_id"

\* What is stored for geometry_id: "no row", or the stored value's type.
Stored == IF geometry_id \in DOMAIN db THEN db[geometry_id].type ELSE "no row"

NotFound == [raised |-> "RuntimeError", msg |-> NotFoundMessage, value |-> <<>>]

TypeMismatch == [raised |-> "RuntimeError", msg |-> TypeMismatchMessage, value |-> <<>>]

\* C19: the blob source fails with NotFound when there is no row for the id or
\* its polyline is NULL, with the distinct TypeMismatch when the stored value is
\* not a byte sequence, and otherwise returns the stored bytes; in the export
\* loop the failure is the caller's outcome, unchanged, and a successful read
\* never ends in an error.
C19_BlobSourceFailures ==
    /\ NotFound # TypeMismatch
    /\ ReadDone =>
          /\ Stored \in {"no row", "NoneType"} => result = NotFound
          /\ Stored \in {"int", "str"} => result = TypeMismatch
          /\ Stored = "bytes" =>
                (result.raised = "none" /\ result.value = <<db[geometry_id].bytes>>)
    /\ ExportDone =>
          /\ Stored \in {"no row", "NoneType"} => result = NotFound
          /\ Stored \in {"int", "str"} => result = TypeMismatch
          /\ Stored = "bytes" => result.raised = "none"

C19_Witness ==
    /\ ExportDone
    /\ DOMAIN db = {1, 2}
    /\ db[1].type = "NoneType"
    /\ db[2].type = "bytes"
    /\ geometry_id = 1
    /\ result = NotFound

-----------------------------------------------------------------------------
(* Properties of concurrent calls.                                         *)

Finished(t) == threads[t].pc = "done"

\* What the call of thread t returns when it runs alone.
Alone(t) ==
    LET c == threads[t]
    IN  CASE c.op = "parse_polyline" -> parse_polyline(c.blob, c.fmt)
          [] c.op = "guess_polyline_format" ->
                guess_polyline_format(c.blob, GuessHeaderList, GuessRecordLenList)
          [] c.op = "summarize_record_types" ->
                Return(summarize_record_types(InputLists[c.recs_in]))
          [] c.op = "_extract_points_f64_be" ->
                Return(_extract_points_f64_be(InputLists[c.recs_in], c.only_type,
                                              c.stop_at_zero, c.max_points))

\* What the call of thread t returned, the returned list read from the heap.
Returned(t) ==
    LET c == threads[t]
    IN  IF c.result.raised # "none" THEN c.result
        ELSE CASE c.op = "parse_polyline" ->
                    Return([header |-> c.result.value[1].header,
                            recs |-> heap[c.result.value[1].recs]])
               [] c.op = "_extract_points_f64_be" -> Return(heap[c.result.value[1]])
               [] OTHER -> c.result

ReturnsList(t) ==
    /\ Finished(t)
    /\ threads[t].op = "parse_polyline"
    /\ threads[t].result.raised = "none"

\* C20: under every interleaving of two concurrent calls, each finished call
\* has returned what it returns alone (and its returned list still holds that),
\* the input record lists are unchanged, and the list a decode call returns is
\* a new object: not an input list and not the list any other call works on.
C20_CallsShareNothing ==
    threads # <<>> =>
        /\ \A ref \in 1..Len(InputLists) : heap[ref] = InputLists[ref]
        /\ \A t \in ThreadIds : Finished(t) => Returned(t) = Alone(t)
        /\ \A t \in ThreadIds :
              ReturnsList(t) =>
                  /\ threads[t].out > Len(InputLists)
                  /\ \A u \in ThreadIds \ {t} : threads[u].out # threads[t].out

C20_Witness ==
    /\ threads # <<>>
    /\ ReturnsList(1)
    /\ ReturnsList(2)
    /\ threads[1].out = 4
    /\ threads[2].out = 3
    /\ Len(heap[3]) = 2
    /\ Len(heap[4]) = 1

-----------------------------------------------------------------------------
(* Termination of the calls.                                               *)

\* The records of a well-formed decode: (len(blob) - header_len) / record_len.
ExpectedRecords(t) ==
    (Len(threads[t].blob) - threads[t].fmt.header_len) \div threads[t].fmt.record_len

\* The decode of thread t passes its checks with records wide enough for a tag.
DecodesWell(t) ==
    /\ threads[t].op = "parse_polyline"
    /\ threads[t].fmt.header_len >= 0
    /\ threads[t].fmt.record_len >= 2
    /\ Len(threads[t].blob) >= threads[t].fmt.header_len
    /\ (Len(threads[t].blob) - threads[t].fmt.header_len) % threads[t].fmt.record_len = 0

NoRepeats(seq) == \A j, k \in 1..Len(seq) : seq[j] = seq[k] => j = k

StepsBounded(t) ==
    LET c == threads[t]
    IN  /\ c.op = "parse_polyline" => c.steps <= Len(c.blob)
        /\ (DecodesWell(t) /\ Finished(t)) =>
              (c.result.raised = "none" /\ c.steps = ExpectedRecords(t))
        /\ c.op = "guess_polyline_format" =>
              /\ Len(c.visited) <= c.steps
              /\ c.steps <= Len(GuessHeaderList) * Len(GuessRecordLenList)
              /\ NoRepeats(c.visited)
        /\ c.op \in {"summarize_record_types", "_extract_points_f64_be"} =>
              c.steps <= Len(InputLists[c.recs_in])

AllFinished == \A t \in ThreadIds : Finished(t)

\* C21: every decode, guess, summarize and extract call terminates; a decode
\* that passes its checks performs exactly (len(blob) - header_len) /
\* record_len record steps, a guess visits at most |candidate_headers| *
\* |candidate_record_lens| pairs, each once, and the summarize and extract
\* loops take at most one step per record.
C21_CallsTerminate ==
    /\ [](\A t \in ThreadIds : StepsBounded(t))
    /\ <>AllFinished

C21_Witness ==
    /\ threads # <<>>
    /\ AllFinished
    /\ DecodesWell(1)
    /\ threads[1].fmt.header_len = 3
    /\ threads[1].steps = 1
    /\ threads[2].op = "guess_polyline_format"
    /\ threads[2].visited = <<<<0, 3>>, <<0, 6>>, <<1, 3>>, <<1, 6>>>>

-----------------------------------------------------------------------------
(* The sentinel, the usable records and the two projectors.                *)

\* The usable, filter-passing points before the first that equals (0, 0, 0).
RECURSIVE UpToSentinel(_)
UpToSentinel(points) ==
    IF points = <<>> \/ IsZeroPoint(Head(points)) THEN <<>>
    ELSE <<Head(points)>> \o UpToSentinel(Tail(points))

\* C22: with stop_at_zero, the result is exactly the points of the usable,
\* filter-passing records before the first such record whose point equals
\* (0.0, 0.0, 0.0) (cut to max_points where that is set): the sentinel and all
\* after it are left out, and a zero point in a record the filter or the
\* 2-element test drops does not stop the loop.
C22_StopsBeforeSentinel ==
    (Extracted /\ stop_at_zero)
    => /\ max_points = None => Points = UpToSentinel(UsablePoints)
       /\ max_points # None =>
             /\ Len(Points) <= Len(UpToSentinel(UsablePoints))
             /\ Points = SubSeq(UpToSentinel(UsablePoints), 1, Len(Points))
             /\ max_points[1] >= 1 =>
                   Len(Points) = Min(max_points[1], Len(UpToSentinel(UsablePoints)))

C22_Witness ==
    /\ Extracted
    /\ stop_at_zero
    /\ only_type = Some(5)
    /\ max_points = None
    /\ Len(records) = 3
    /\ records[1].f64_be = <<One, Two, PosZero>>
    /\ records[2].f64_be = <<PosZero, PosZero, PosZero>>
    /\ records[2].rec_type_u16 = 5
    /\ records[3].f64_be = <<Three, Four, PosZero>>
    /\ Points = <<<<One, Two, PosZero>>>>

\* The first record that passes the filter, holds exactly 2 doubles and has
\* x = y = 0, or 0.
FirstFlatZero ==
    LET hits == {k \in 1..Len(records) :
                    /\ only_type = None \/ records[k].rec_type_u16 = only_type[1]
                    /\ Len(records[k].f64_be) = 2
                    /\ \A c \in 1..2 : records[k].f64_be[c] \in {PosZero, NegZero}}
    IN  IF hits = {} THEN 0 ELSE CHOOSE k \in hits : \A j \in hits : k <= j

\* C23: a record with fewer than 2 doubles is skipped and the loop goes on;
\* a usable record gives x = view[0], y = view[1] and z = view[2], or 0.0 when
\* there is no third; so with stop_at_zero a 2-element record with x = y = 0
\* ends the loop as the sentinel.
C23_UsableRecordsAndFlatSentinel ==
    Extracted
    => /\ (~stop_at_zero /\ max_points = None) =>
             /\ Points = UsablePoints
             /\ Len(Points) = Len(SelectSeq(records, LAMBDA r :
                                   /\ only_type = None \/ r.rec_type_u16 = only_type[1]
                                   /\ Len(r.f64_be) >= 2))
       /\ \A k \in 1..Len(Points) : Len(Points[k]) = 3
       /\ (stop_at_zero /\ FirstFlatZero # 0) =>
             Len(Points) <= Len(UsableRecords(SubSeq(records, 1, FirstFlatZero - 1), only_type))

C23_Witness ==
    /\ Extracted
    /\ stop_at_zero
    /\ only_type = None
    /\ max_points = None
    /\ Len(records) = 3
    /\ Len(records[1].f64_be) = 1
    /\ records[2].f64_be = <<Two, One>>
    /\ FirstFlatZero = 3
    /\ Points = <<<<Two, One, PosZero>>>>

ExtractedXyz == pc = "_extract_points_f64_be_xyz"

\* C30: on every list of decoded records and every only_type, stop_at_zero and
\* max_points, _extract_points_f64_be_xyz returns the sequence of points that
\* _extract_points_f64_be returns.
C30_ProjectorsAgree ==
    ExtractedXyz
    => result = Return(_extract_points_f64_be(records, only_type, stop_at_zero, max_points))

C30_Witness ==
    /\ ExtractedXyz
    /\ only_type = Some(5)
    /\ stop_at_zero
    /\ max_points = Some(2)
    /\ Len(records) = 3
    /\ records[1].rec_type_u16 = 7
    /\ Len(result.value[1]) = 2

-----------------------------------------------------------------------------
(* iter_records against parse_polyline.                                    *)

Walked == pc = "iter_records"

Yielded == result.value[1]

Parsed == parse_polyline(blob, fmt)

\* C29: where parse_polyline succeeds, iter_records yields as many records,
\* with the same index, type tag and payload in the same order; where
\* parse_polyline fails for a non-divisible body or a header longer than the
\* blob, iter_records yields no record.
C29_WalkerAgreesWithDecoder ==
    Walked
    => /\ Parsed.raised = "none" =>
             /\ result.raised = "none"
             /\ Len(Yielded) = Len(Parsed.value[1].recs)
             /\ \A k \in 1..Len(Yielded) :
                   /\ Yielded[k].idx = Parsed.value[1].recs[k].index
                   /\ Yielded[k].rec_type = Parsed.value[1].recs[k].rec_type_u16
                   /\ Yielded[k].payload = Parsed.value[1].recs[k].payload
       /\ Parsed.msg \in {"body not divisible by record_len", "blob shorter than header"} =>
             Yielded = <<>>

-----------------------------------------------------------------------------
(* Properties of _sanitize_sheet_name.                                     *)

Sanitized == pc = "_sanitize_sheet_name"

\* C25: for every input, _sanitize_sheet_name returns a non-empty name of at
\* most 31 characters with none of [ ] : * ? / \ in it, that neither begins
\* nor ends with an apostrophe.
C25_SheetNameIsValid ==
    Sanitized
    => LET name == result.value[1]
       IN  /\ name # <<>>
           /\ Len(name) <= 31
           /\ \A k \in 1..Len(name) : name[k] \notin {91, 93, 58, 42, 63, 47, 92}
           /\ name[1] # 39
           /\ name[Len(name)] # 39

-----------------------------------------------------------------------------
(* Properties of _dedupe_sheet_name.                                       *)

Deduped == pc = "_dedupe_sheet_name"

ReturnedNames == {returned[k] : k \in 1..Len(returned)}

\* name with the two-digit (or longer) number i after an underscore, cut so
\* that the whole has 31 characters at most
Suffixed(name, i) ==
    LET digits == IF i < 10 THEN <<48, 48 + i>>
                  ELSE IF i < 100 THEN <<48 + (i \div 10), 48 + (i % 10)>>
                  ELSE <<48 + (i \div 100), 48 + ((i \div 10) % 10), 48 + (i % 10)>>
        keep == Min(Len(name), 31 - 1 - Len(digits))
    IN  [k \in 1..keep |-> name[k]] \o <<95>> \o digits

FreeSuffixes(name, names) == {i \in 1..999 : Suffixed(name, i) \notin names}

FirstFree(name, names) ==
    CHOOSE i \in FreeSuffixes(name, names) : \A j \in FreeSuffixes(name, names) : i <= j

DedupeKeeps ==
    /\ used = ReturnedNames
    /\ Cardinality(used) = Len(returned)
    /\ \A k \in 1..Len(returned) : Len(returned[k]) <= 31

DedupeStep ==
    LET name == sheet_name'
    IN  IF name \notin used
        THEN result' = Return(name) /\ used' = used \cup {name}
        ELSE IF FreeSuffixes(name, used) # {}
        THEN /\ result' = Return(Suffixed(name, FirstFree(name, used)))
             /\ used' = used \cup {Suffixed(name, FirstFree(name, used))}
        ELSE result'.raised = "RuntimeError" /\ used' = used

\* C26: over any sequence of _dedupe_sheet_name calls on one used set, with
\* names of at most 31 characters, the returned names are pairwise distinct
\* and at most 31 long, used is exactly the set of returned names, a name not
\* in used comes back unchanged, a clash gets the first free suffix _01, _02,
\* ..., and the call raises, leaving used alone, only when all 999 are taken.
C26_DedupeKeepsNamesDistinct == []DedupeKeeps /\ [][DedupeStep]_vars

C26_Witness ==
    /\ Deduped
    /\ result.raised = "none"
    /\ Len(sheet_name) = 31
    /\ result.value[1] # sheet_name
    /\ Len(returned) = 3

DedupeRaised == Deduped /\ result.raised = "RuntimeError"

-----------------------------------------------------------------------------
(* Properties of the GUI's export buttons.                                 *)

Terminal == {"done", "error"}

InFlight(w) == w \in 1..Len(workers) /\ ~workers[w].acked

NoNewWorker == Len(workers') = Len(workers)

BusyCleared == busy /\ ~busy'

TerminalDequeued ==
    /\ queue # <<>>
    /\ Head(queue).kind \in Terminal
    /\ queue' = Tail(queue)

\* C27: at most one export worker is in flight at any time; no worker is
\* started while busy is set; busy is cleared only by pump_queue taking a
\* 'done' or 'error' message from the queue.
C27_OneExportAtATime ==
    /\ [](Cardinality({w \in 1..MaxPresses : InFlight(w)}) <= 1)
    /\ [][busy => NoNewWorker]_vars
    /\ [][BusyCleared => TerminalDequeued]_vars

\* an export was refused because another one was still in flight
C27_Witness ==
    /\ Len(workers) = 1
    /\ InFlight(1)
    /\ presses >= 2
    /\ busy

TerminalsOf(kinds) == {k \in 1..Len(kinds) : kinds[k] \in Terminal}

QueuedFrom(w) == {k \in 1..Len(queue) : queue[k].from = w}

SentInOrder(w) ==
    LET kinds == workers[w].sent
    IN  /\ Cardinality(TerminalsOf(kinds)) <= 1
        /\ TerminalsOf(kinds) \subseteq {Len(kinds)}
        /\ WorkerDone(w) =>
             /\ TerminalsOf(kinds) = {Len(kinds)}
             /\ kinds[Len(kinds)] = IF workers[w].raised THEN "error" ELSE "done"
        /\ \A j, k \in QueuedFrom(w) :
             j < k => queue[j].kind = "progress"

Started(w) == w \in 1..Len(workers)

Released(w) == Started(w) /\ workers[w].acked /\ ~busy

CanStartAgain ==
    (~busy /\ presses < MaxPresses)
    => ENABLED (Press("do_export_selected") /\ Len(workers') = Len(workers) + 1)

\* C28: every started worker puts exactly one terminal message, 'done' when
\* the export succeeded and 'error' when it raised, and puts it last; with
\* pump_queue rescheduled for ever, every started export is followed by busy
\* being false again, and then a further export can be started.
C28_EveryExportCompletes ==
    /\ [](\A w \in 1..Len(workers) : SentInOrder(w))
    /\ \A w \in 1..MaxPresses : (Started(w) ~> Released(w))
    /\ []CanStartAgain

\* a second export runs after the first one failed and was taken off the queue
C28_Witness ==
    /\ Len(workers) = 2
    /\ workers[1].raised /\ workers[1].acked
    /\ WorkerDone(2) /\ ~workers[2].raised
    /\ busy

-----------------------------------------------------------------------------
(* Properties of the callers' control flow.                                *)

Consumers == {"summarize_record_types", "_extract_points_f64_be", "_extract_points_f64_be_xyz"}

BothSupplied == arg_header # <<>> /\ arg_record_len # <<>>

\* the operation invoked right before the k-th one, on the same geometry
Before(k, op) == k > 1 /\ trace[k - 1].op = op /\ trace[k - 1].n = trace[k].n /\ trace[k - 1].ok

\* after the k-th operation the geometry is dropped: nothing more is invoked
\* on it, and a command for one geometry has returned 1
Dropped(k) ==
    IF caller \in {"cmd_dump", "cmd_plot"}
    THEN k = Len(trace) /\ pc = "returned" /\ exit_code = <<1>>
    ELSE \/ k = Len(trace) /\ pc \in {"fetch", "returned"}
         \/ k < Len(trace) /\ trace[k + 1].op = "read_geometry_polyline_blob"
                           /\ trace[k + 1].n = trace[k].n + 1

InOrder(k) ==
    LET ev == trace[k]
    IN  /\ ev.op = "read_geometry_polyline_blob" =>
             \A j \in 1..(k - 1) : trace[j].n < ev.n
        /\ ev.op = "guess_polyline_format" =>
             /\ ~BothSupplied
             /\ Before(k, "read_geometry_polyline_blob")
             /\ ~ev.ok => Dropped(k)
        /\ ev.op = "parse_polyline" =>
             /\ ev.fmt # <<>>
             /\ IF BothSupplied THEN Before(k, "read_geometry_polyline_blob")
                                ELSE Before(k, "guess_polyline_format")
             /\ ~ev.ok => Dropped(k)
        /\ ev.op \in Consumers => Before(k, "parse_polyline")

\* C24: every caller fetches the blob first, then chooses the format, then
\* decodes, then hands the records to summarize / extract_points; guess is
\* invoked only when header and record_len were not both supplied; decode is
\* never invoked with a None format, a None guess ending the command with
\* exit code 1 or skipping the geometry in the two loops; and no consumer is
\* invoked after a failed decode.
C24_CallersKeepTheOrder == \A k \in 1..Len(trace) : InOrder(k)

\* a loop that skipped a geometry whose format was not guessed and went on
\* to decode and consume the next one
C24_Witness ==
    /\ pc = "returned"
    /\ IsBatch(caller)
    /\ Len(trace) = 6
    /\ trace[2].op = "guess_polyline_format" /\ ~trace[2].ok
    /\ trace[5].op = "parse_polyline" /\ trace[5].ok
    /\ trace[6].op \in Consumers

DecodeFailedOnce == \E k \in 1..Len(trace) : trace[k].op = "parse_polyline" /\ ~trace[k].ok

SingleGaveUp == caller = "cmd_plot" /\ pc = "returned" /\ exit_code = <<1>> /\ Len(trace) = 2

=============================================================================
